---- MODULE Spec2Model ----
(***************************************************************************)
(* cobi-glasses: the audio bridge (audio-capture-bridge.py), the offline   *)
(* transcription worker (transcription-service/app.py and w-app.py) and    *)
(* the sound classifier (sound-classifier/app.py) as state machines.       *)
(*                                                                         *)
(* Audio is modelled by position: a block or a buffer is the interval      *)
(* [lo, hi) of sample positions of the stream it was cut from, so          *)
(* concatenation extends hi and slicing moves lo.  Sample counts are the   *)
(* real ones (16000 per second).                                           *)
(***************************************************************************)
EXTENDS Integers, Sequences, FiniteSets, TLC

(***************************************************************************)
(* Bounds of the model.                                                    *)
(***************************************************************************)
MaxThreads == 2
MaxBlocks == 2
MaxCapture == 66
MaxFanCalls == 3
MaxChunks == 4
MaxClsChunks == 5
MaxStuckChunks == 65
MaxFwd == 3
MaxEarlyBlocks == 1
MaxRelayThreads == 1
MaxLate == 1
MaxTaskCalls == 2
MaxOnlineChunks == 129
MaxClientBlocks == 8

(***************************************************************************)
(* Program constants of the bridge.                                        *)
(***************************************************************************)
AUDIO_Q_MAXSIZE == 64

Conns == {"A", "B"}
None == "None"
Threads == 1..MaxThreads
NoBlock == [seq |-> 0, ep |-> 0]
Idle == [who |-> None, at |-> "idle"]

VARIABLES
    stop_event,      \* threading.Event, global
    audio_q,         \* queue.Queue(maxsize=64), global: sequence of blocks
    control_ws_ref,  \* global reference to "the" control websocket
    conn,            \* per control connection: "absent", "open", "exiting" (the
                     \* handler is in its finally block, the client still
                     \* connected), "closed" (client_state DISCONNECTED, or
                     \* the handler has returned)
    mic_thread,      \* per control connection: its local mic_thread (0 = None)
    ctl,             \* where the (single) event loop is blocked in join()
    thr,             \* the capture threads ever started
    captured,        \* callback invocations so far (capture sequence number)
    flushes,         \* start-time flushes so far
    nflushed,        \* blocks discarded by start-time flushes so far
    cb_last,         \* outcome of the last audio_callback invocation
    last             \* the last control text and what it did

\* process_audio_block applied to a run of blocks
VARIABLES
    fan_ws,          \* which of ws_t, ws_c are connection objects (not None)
    fan_log          \* per call: what each send did, and the value returned

\* the offline transcription worker and its /transcribe handler
VARIABLES
    variant,         \* "app" (app.py) or "wapp" (w-app.py)
    w_pc,            \* the worker: "load", "read", "partial", "final", "exited", "terminated"
    w_buf,           \* buf, as the interval [lo, hi) of the samples read so far
    input_q,         \* input_q_mp
    output_q,        \* output_q_mp
    w_out,           \* every message the worker has put on output_q
    w_calls,         \* the model.transcribe calls made
    w_eos,           \* when the end marker was read: buf.size (-1: not read) and
                     \* the number of messages put so far
    h_pc,            \* the handler: "accept", "recv", "eos_wait", "cleanup", "terminate", "done"
    h_chunks,        \* binary frames received from the client so far
    h_put,           \* samples put on input_q so far
    h_waited,        \* whether the worker had exited when the post-eos wait ended
    h_fwd            \* the messages poll_output_queue has sent to the client

\* the sound classifier's /classify handler
VARIABLES
    cls_pc,          \* "accept", "recv", "drain", "closed"
    cls_buf,         \* buffer, as the interval [lo, hi) of the samples received
    cls_calls,       \* the windows handed to interpreter.invoke
    cls_chunks,      \* binary frames received so far
    cls_sent         \* detections sent to the client so far

\* the translate toggle of w-app.py and its /transcribe connections
VARIABLES
    translate_enabled, \* the module-level mp.Value('b', False)
    sess               \* per connection: "absent"/"open"/"closed", the mode the
                       \* connection itself last asked for, and the task of
                       \* each model.transcribe call of its worker

\* the remote STT server's /transcribe handler (remote_stt.py)
VARIABLES
    r_pc,            \* "off", "accept", "recv", "partial", "final", "closed"
    r_buf,           \* buf, as the interval [lo, hi) of the samples received
    r_calls,         \* the model.transcribe calls made
    r_chunks,        \* binary frames received so far
    r_sent           \* the messages sent to the client

\* the /transcribe handler of app.py in online mode, with its proxy task
VARIABLES
    o_pc,               \* "off", "accept", "recv", "putting", "eos_put",
                        \* "await_proxy", "cleanup", "done"
    o_recv,             \* binary frames received from the client so far
    o_exit,             \* why the receive loop was left: "none", "eos", "disconnect"
    async_audio_queue,  \* chunk numbers, and None for the sentinel
    proxy_task,         \* "none", "connecting", "running", "ended" (eos sent),
                        \* "ended_unsent" (the eos send raised), "failed", "cancelled"
    remote_sent         \* what the proxy has sent to the remote STT service

\* the mode of the transcription service (app.py) and its /transcribe
\* connections as far as the mode decides what they do
VARIABLES
    MODE,            \* the global: "offline" or "online"
    rest_last,       \* the last REST request: endpoint, argument and reply
    t_pc,            \* per connection: "absent", "open", "closed"
    current_mode,    \* per connection: the local current_mode ("none" before accept)
    routed           \* per connection: the branches its frames have taken

\* the standalone capture client (client.py), which talks to the classifier
VARIABLES
    cl_pc,           \* "off", "get", "await_reply", "stopped", "failed"
    cl_block,        \* blocksize, in samples
    cl_captured,     \* blocks the callback has put on the client's queue
    cl_deq,          \* blocks taken from the queue and sent to the classifier
    cl_labels,       \* the label of the reply received for each block so far
    cl_fwd           \* the blocks forwarded to the transcriber

bridgeVars == <<stop_event, audio_q, control_ws_ref, conn, mic_thread, ctl, thr,
                captured, flushes, nflushed, cb_last, last>>
fanVars == <<fan_ws, fan_log>>
workerVars == <<variant, w_pc, w_buf, input_q, output_q, w_out, w_calls, w_eos,
                h_pc, h_chunks, h_put, h_waited, h_fwd>>
clsVars == <<cls_pc, cls_buf, cls_calls, cls_chunks, cls_sent>>

toggleVars == <<translate_enabled, sess>>
remoteVars == <<r_pc, r_buf, r_calls, r_chunks, r_sent>>
onlineVars == <<o_pc, o_recv, o_exit, async_audio_queue, proxy_task, remote_sent>>
modeVars == <<MODE, rest_last, t_pc, current_mode, routed>>
captureVars == <<cl_pc, cl_block, cl_captured, cl_deq, cl_labels, cl_fwd>>

\* the services added last, kept together
extraVars == <<remoteVars, onlineVars, modeVars, captureVars>>

vars == <<bridgeVars, fanVars, workerVars, clsVars, toggleVars, extraVars>>

(***************************************************************************)
(* Each service is checked on its own: a specification starts the others   *)
(* in these states and never moves them.                                   *)
(***************************************************************************)
BridgeOff ==
    /\ stop_event = FALSE
    /\ audio_q = <<>>
    /\ control_ws_ref = None
    /\ conn = [c \in Conns |-> "absent"]
    /\ mic_thread = [c \in Conns |-> 0]
    /\ ctl = Idle
    /\ captured = 0
    /\ flushes = 0
    /\ nflushed = 0
    /\ cb_last = "none"
    /\ last = [c |-> None, action |-> "none", effect |-> "none"]

FanOff ==
    /\ fan_ws = [t |-> FALSE, c |-> FALSE]
    /\ fan_log = <<>>

NotRead == [r |-> -1, nout |-> 0, by |-> "none", at |-> 0]

WorkerOff ==
    /\ variant = "app"
    /\ w_pc = "unborn"
    /\ w_buf = [lo |-> 0, hi |-> 0]
    /\ input_q = <<>>
    /\ output_q = <<>>
    /\ w_out = <<>>
    /\ w_calls = <<>>
    /\ w_eos = NotRead
    /\ h_pc = "accept"
    /\ h_chunks = 0
    /\ h_put = 0
    /\ h_waited = "none"
    /\ h_fwd = <<>>

ClsOff ==
    /\ cls_pc = "accept"
    /\ cls_buf = [lo |-> 0, hi |-> 0]
    /\ cls_calls = <<>>
    /\ cls_chunks = 0
    /\ cls_sent = 0

RemoteOff ==
    /\ r_pc = "off"
    /\ r_buf = [lo |-> 0, hi |-> 0]
    /\ r_calls = <<>>
    /\ r_chunks = 0
    /\ r_sent = <<>>

OnlineOff ==
    /\ o_pc = "off"
    /\ o_recv = 0
    /\ o_exit = "none"
    /\ async_audio_queue = <<>>
    /\ proxy_task = "none"
    /\ remote_sent = <<>>

NoRequest == [ep |-> "none", arg |-> "", reply |-> "", mode |-> ""]

ModeOff ==
    /\ MODE = "offline"
    /\ rest_last = NoRequest
    /\ t_pc = [c \in Conns |-> "absent"]
    /\ current_mode = [c \in Conns |-> "none"]
    /\ routed = [c \in Conns |-> {}]

CaptureOff ==
    /\ cl_pc = "off"
    /\ cl_block = 3200
    /\ cl_captured = 0
    /\ cl_deq = 0
    /\ cl_labels = <<>>
    /\ cl_fwd = <<>>

ExtraOff == RemoteOff /\ OnlineOff /\ ModeOff /\ CaptureOff

NoSession == [pc |-> "absent", own |-> FALSE, calls |-> <<>>]

ToggleOff ==
    /\ translate_enabled = FALSE
    /\ sess = [c \in Conns |-> NoSession]

Unborn == [owner |-> None, pc |-> "unborn", ws_t |-> "none", ws_c |-> "none",
           stream |-> FALSE, block |-> NoBlock, why |-> "none", startEp |-> 0,
           deq |-> <<>>, sent |-> <<>>, eos_t |-> "none", eos_c |-> "none",
           early |-> FALSE, fwd |-> <<>>, rx |-> [t |-> 0, c |-> 0],
           late |-> 0]

Alive(t) == thr[t].pc \notin {"unborn", "dead"}

NumThreads == Cardinality({t \in Threads : thr[t].pc # "unborn"})

BridgeIdle ==
    /\ BridgeOff
    /\ thr = [t \in Threads |-> Unborn]

InitBridge ==
    /\ BridgeIdle
    /\ ToggleOff
    /\ ExtraOff
    /\ FanOff
    /\ WorkerOff
    /\ ClsOff

(***************************************************************************)
(* audio_callback: runs on the audio subsystem's thread while the          *)
(* InputStream of capture thread t is open.                                *)
(***************************************************************************)
EnqueueDropOldest(q, b) ==
    IF Len(q) < AUDIO_Q_MAXSIZE THEN Append(q, b) ELSE Append(Tail(q), b)

\* put_nowait with queue.Full swallowed: the queue is unchanged when full
put_nowait(q, b) ==
    IF Len(q) < AUDIO_Q_MAXSIZE THEN Append(q, b) ELSE q

\* the callback with the stop_event test left out
CaptureIgnoringStop(t, limit) ==
    /\ UNCHANGED <<fanVars, workerVars, clsVars, toggleVars, extraVars>>
    /\ thr[t].stream
    /\ captured < limit
    /\ captured' = captured + 1
    /\ audio_q' = put_nowait(audio_q, [seq |-> captured + 1, ep |-> flushes])
    /\ cb_last' = IF Len(audio_q) < AUDIO_Q_MAXSIZE THEN "enqueued" ELSE "dropped"
    /\ UNCHANGED <<stop_event, control_ws_ref, conn, mic_thread, ctl, thr,
                   flushes, nflushed, last>>

Capture(t, limit) ==
    /\ UNCHANGED <<fanVars, workerVars, clsVars, toggleVars, extraVars>>
    /\ thr[t].stream
    /\ captured < limit
    /\ captured' = captured + 1
    /\ IF stop_event
         THEN /\ audio_q' = audio_q
              /\ cb_last' = "skipped"
         ELSE /\ audio_q' = put_nowait(audio_q, [seq |-> captured + 1, ep |-> flushes])
              /\ cb_last' = IF Len(audio_q) < AUDIO_Q_MAXSIZE THEN "enqueued" ELSE "dropped"
    /\ UNCHANGED <<stop_event, control_ws_ref, conn, mic_thread, ctl, thr,
                   flushes, nflushed, last>>

audio_callback(t) == Capture(t, MaxBlocks)

(***************************************************************************)
(* process_audio_block: ws_t / ws_c tell whether the connection object is  *)
(* truthy, oT / oC are what the two sends do ("ok" or "exc").              *)
(***************************************************************************)
SucceedUnlessNoTask(ws_t, ws_c, oT, oC) == ws_t \/ ws_c

FailOnAnyError(ws_t, ws_c, oT, oC) ==
    /\ ws_t \/ ws_c
    /\ ws_t => oT = "ok"
    /\ ws_c => oC = "ok"

process_audio_block(ws_t, ws_c, oT, oC) ==
    LET tasks == (IF ws_t THEN <<oT>> ELSE <<>>) \o (IF ws_c THEN <<oC>> ELSE <<>>)
        errors == SelectSeq(tasks, LAMBDA r : r = "exc")
    IN  IF Len(tasks) = 0 THEN FALSE ELSE Len(errors) < Len(tasks)

(***************************************************************************)
(* control_socket                                                          *)
(***************************************************************************)
Accept(c) ==
    /\ UNCHANGED <<fanVars, workerVars, clsVars, toggleVars, extraVars>>
    /\ conn[c] = "absent"
    /\ ctl = Idle
    /\ conn' = [conn EXCEPT ![c] = "open"]
    /\ control_ws_ref' = c
    /\ UNCHANGED <<stop_event, audio_q, mic_thread, ctl, thr, captured,
                   flushes, nflushed, cb_last, last>>

Receiving(c) ==
    /\ conn[c] = "open"
    /\ ctl = Idle

LaunchAlways(c) == TRUE

\* line 212: mic_thread is None or not mic_thread.is_alive()
MayLaunch(c) == mic_thread[c] = 0 \/ ~Alive(mic_thread[c])

FlushNothing(q) == q

\* lines 215-219: while not audio_q.empty(): audio_q.get_nowait()
FlushQueue(q) == <<>>

ClearedByAnyStart(launch, s) == FALSE

NeverCleared(launch, s) == s

\* line 214: stop_event.clear(), inside the test of line 212
StopAfterStart(launch, s) == IF launch THEN FALSE ELSE s

RecvStart(c) ==
    /\ UNCHANGED <<fanVars, workerVars, clsVars, toggleVars, extraVars>>
    /\ Receiving(c)
    /\ stop_event' = StopAfterStart(MayLaunch(c), stop_event)
    /\ IF MayLaunch(c)
         THEN /\ NumThreads < MaxThreads
              /\ LET t == NumThreads + 1 IN
                 /\ audio_q' = FlushQueue(audio_q)
                 /\ flushes' = flushes + 1
                 /\ nflushed' = nflushed + (Len(audio_q) - Len(FlushQueue(audio_q)))
                 /\ thr' = [thr EXCEPT ![t] = [Unborn EXCEPT !.owner = c,
                                                  !.pc = "connect_t",
                                                  !.startEp = flushes + 1]]
                 /\ mic_thread' = [mic_thread EXCEPT ![c] = t]
                 /\ last' = [c |-> c, action |-> "start", effect |-> "launched"]
         ELSE /\ last' = [c |-> c, action |-> "start", effect |-> "ignored"]
              /\ UNCHANGED <<audio_q, flushes, nflushed, thr, mic_thread>>
    /\ UNCHANGED <<control_ws_ref, conn, ctl, captured, cb_last>>

Starting(t) == thr[t].pc \in {"connect_t", "connect_c"}

\* the stop signal set only for a thread that is streaming
SetStopIfStreaming(c) == stop_event \/ (mic_thread[c] # 0 /\ thr[mic_thread[c]].stream)

\* line 225: stop_event.set(), whatever the state of the session
SetStop(c) == TRUE

\* the stop command; with track, thr[t].early records that it arrived while
\* the connection's thread t was Starting (a history of the run, not program
\* state)
StopCommand(c, track) ==
    /\ UNCHANGED <<fanVars, workerVars, clsVars, toggleVars, extraVars>>
    /\ Receiving(c)
    /\ stop_event' = SetStop(c)
    /\ thr' = IF track /\ mic_thread[c] # 0 /\ Starting(mic_thread[c])
                THEN [thr EXCEPT ![mic_thread[c]].early = TRUE] ELSE thr
    /\ ctl' = IF mic_thread[c] # 0 /\ Alive(mic_thread[c])
                THEN [who |-> c, at |-> "stop"] ELSE Idle
    /\ last' = [c |-> c, action |-> "stop",
                effect |-> IF mic_thread[c] # 0 /\ Alive(mic_thread[c])
                             THEN "joining" ELSE "idle"]
    /\ UNCHANGED <<audio_q, control_ws_ref, conn, mic_thread, captured,
                   flushes, nflushed, cb_last>>

RecvStop(c) == StopCommand(c, FALSE)

RecvStopTracked(c) == StopCommand(c, TRUE)

\* join(timeout=2.0) returns: the thread died, or the timeout elapsed
JoinReturn ==
    /\ UNCHANGED <<fanVars, workerVars, clsVars, toggleVars, extraVars>>
    /\ ctl.at = "stop"
    /\ ctl' = Idle
    /\ UNCHANGED <<stop_event, audio_q, control_ws_ref, conn, mic_thread, thr,
                   captured, flushes, nflushed, cb_last, last>>

\* json.JSONDecodeError: continue
RecvUnparseable(c) ==
    /\ UNCHANGED <<fanVars, workerVars, clsVars, toggleVars, extraVars>>
    /\ Receiving(c)
    /\ last' = [c |-> c, action |-> "unparseable", effect |-> "ignored"]
    /\ UNCHANGED <<stop_event, audio_q, control_ws_ref, conn, mic_thread, ctl, thr,
                   captured, flushes, nflushed, cb_last>>

\* a JSON object whose "action" is neither "start" nor "stop"
RecvOtherObject(c) ==
    /\ UNCHANGED <<fanVars, workerVars, clsVars, toggleVars, extraVars>>
    /\ Receiving(c)
    /\ last' = [c |-> c, action |-> "other", effect |-> "ignored"]
    /\ UNCHANGED <<stop_event, audio_q, control_ws_ref, conn, mic_thread, ctl, thr,
                   captured, flushes, nflushed, cb_last>>

\* the handler's finally block (lines 233-237); receive_text has set
\* client_state to DISCONNECTED when it raised WebSocketDisconnect, and only then
HandlerExit(c, what) ==
    /\ UNCHANGED <<fanVars, workerVars, clsVars, toggleVars, extraVars>>
    /\ stop_event' = TRUE
    /\ conn' = [conn EXCEPT ![c] =
                  IF what # "disconnect" /\ mic_thread[c] # 0 /\ Alive(mic_thread[c])
                    THEN "exiting" ELSE "closed"]
    /\ last' = [c |-> c, action |-> what, effect |-> "closed"]
    /\ IF mic_thread[c] # 0 /\ Alive(mic_thread[c])
         THEN /\ ctl' = [who |-> c, at |-> "final"]
              /\ UNCHANGED control_ws_ref
         ELSE /\ control_ws_ref' = None
              /\ UNCHANGED ctl
    /\ UNCHANGED <<audio_q, mic_thread, thr, captured, flushes, nflushed, cb_last>>

\* parseable JSON that is not an object: command.get raises AttributeError,
\* caught by "except Exception" at line 231, and the handler ends
RecvNonObject(c) ==
    /\ Receiving(c)
    /\ HandlerExit(c, "nonobject")

\* WebSocketDisconnect out of receive_text
Disconnect(c) ==
    /\ conn[c] = "open"
    /\ ctl = Idle
    /\ HandlerExit(c, "disconnect")

FinishExit ==
    /\ UNCHANGED <<fanVars, workerVars, clsVars, toggleVars, extraVars>>
    /\ ctl.at = "final"
    /\ ctl' = Idle
    /\ control_ws_ref' = None
    /\ conn' = [conn EXCEPT ![ctl.who] = "closed"]
    /\ UNCHANGED <<stop_event, audio_q, mic_thread, thr, captured,
                   flushes, nflushed, cb_last, last>>

(***************************************************************************)
(* mic_stream_logic, one action per await point                            *)
(***************************************************************************)
ThreadStep(t, rec) ==
    /\ UNCHANGED <<fanVars, workerVars, clsVars, toggleVars, extraVars>>
    /\ thr' = [thr EXCEPT ![t] = rec]
    /\ UNCHANGED <<control_ws_ref, conn, mic_thread, ctl, captured, flushes,
                   nflushed, cb_last, last>>

ConnectTranscriber(t) ==
    /\ thr[t].pc = "connect_t"
    /\ \E ok \in BOOLEAN :
         ThreadStep(t, IF ok THEN [thr[t] EXCEPT !.ws_t = "open", !.pc = "connect_c"]
                             ELSE [thr[t] EXCEPT !.pc = "finally", !.why = "connfail"])
    /\ UNCHANGED <<stop_event, audio_q>>

\* a failed connection to the classifier tolerated: streaming goes on with
\* ws_c = None
ConnectClassifierLenient(t) ==
    /\ thr[t].pc = "connect_c"
    /\ \E out \in {"ok", "connfail", "devfail"} :
         ThreadStep(t,
            CASE out = "ok" -> [thr[t] EXCEPT !.ws_c = "open", !.stream = TRUE, !.pc = "loop"]
              [] out = "connfail" -> [thr[t] EXCEPT !.stream = TRUE, !.pc = "loop"]
              [] out = "devfail" -> [thr[t] EXCEPT !.ws_c = "open", !.pc = "finally",
                                                   !.why = "devfail"])
    /\ UNCHANGED <<stop_event, audio_q>>

ConnectClassifier(t) ==
    /\ thr[t].pc = "connect_c"
    /\ \E out \in {"ok", "connfail", "devfail"} :
         ThreadStep(t,
            CASE out = "ok" -> [thr[t] EXCEPT !.ws_c = "open", !.stream = TRUE, !.pc = "loop"]
              [] out = "connfail" -> [thr[t] EXCEPT !.pc = "finally", !.why = "connfail"]
              [] out = "devfail" -> [thr[t] EXCEPT !.ws_c = "open", !.pc = "finally",
                                                   !.why = "devfail"])
    /\ UNCHANGED <<stop_event, audio_q>>

\* while not stop_event.is_set(): the loop ends and the InputStream closes
LoopStop(t) ==
    /\ thr[t].pc = "loop"
    /\ stop_event
    /\ ThreadStep(t, [thr[t] EXCEPT !.pc = "eos", !.stream = FALSE, !.why = "stop"])
    /\ UNCHANGED <<stop_event, audio_q>>

\* the head block read but left in the queue
PeekOnly(q) == q

\* line 145: audio_q.get_nowait() removes the head of the queue
get_nowait(q) == Tail(q)

LoopDequeue(t) ==
    /\ thr[t].pc = "loop"
    /\ ~stop_event
    /\ audio_q # <<>>
    /\ audio_q' = get_nowait(audio_q)
    /\ ThreadStep(t, [thr[t] EXCEPT !.pc = "send", !.block = Head(audio_q),
                                    !.deq = Append(@, Head(audio_q))])
    /\ UNCHANGED stop_event

SendBlockWith(t, oT, oC) ==
    /\ thr[t].pc = "send"
    /\ LET success == process_audio_block(thr[t].ws_t = "open", thr[t].ws_c = "open", oT, oC)
           entry == [blk |-> thr[t].block, t |-> (oT = "ok"), c |-> (oC = "ok")]
       IN  ThreadStep(t,
              IF success
                THEN [thr[t] EXCEPT !.pc = "loop", !.block = NoBlock,
                                    !.sent = Append(@, entry)]
                ELSE [thr[t] EXCEPT !.pc = "eos", !.block = NoBlock, !.stream = FALSE,
                                    !.why = "fail", !.sent = Append(@, entry)])
    /\ UNCHANGED <<stop_event, audio_q>>

SendBlock(t) == \E oT, oC \in {"ok", "exc"} : SendBlockWith(t, oT, oC)

SkipEos(t) ==
    /\ thr[t].pc = "eos"
    /\ ThreadStep(t, [thr[t] EXCEPT !.pc = "finally"])
    /\ UNCHANGED <<stop_event, audio_q>>

\* lines 166-179: {"event": "eos"} is sent on ws_t, and on ws_t only (eos_c is
\* never assigned: no statement sends the marker on ws_c); a send that raises
\* is only logged; then the listeners are cancelled
SendEos(t) ==
    /\ thr[t].pc = "eos"
    /\ \E out \in {"sent", "failed"} :
         ThreadStep(t, [thr[t] EXCEPT !.pc = "finally",
                           !.eos_t = IF thr[t].ws_t = "open" THEN out ELSE @])
    /\ UNCHANGED <<stop_event, audio_q>>

LeaveOpen(ws) == ws

\* lines 184-189: await ws.close() for each connection that was opened; an
\* exception of close is swallowed
CloseConn(ws) == IF ws = "open" THEN "closed" ELSE ws

\* lines 183-191
Finally(t) ==
    /\ thr[t].pc = "finally"
    /\ stop_event' = FALSE
    /\ ThreadStep(t, [thr[t] EXCEPT !.pc = "dead",
                         !.ws_t = CloseConn(@),
                         !.ws_c = CloseConn(@)])
    /\ UNCHANGED audio_q

ControlStep(CS) ==
    \/ \E c \in CS : Accept(c)
    \/ \E c \in CS : RecvStart(c)
    \/ \E c \in CS : RecvStop(c)
    \/ JoinReturn
    \/ \E c \in CS : RecvUnparseable(c)
    \/ \E c \in CS : RecvOtherObject(c)
    \/ \E c \in CS : RecvNonObject(c)
    \/ \E c \in CS : Disconnect(c)
    \/ FinishExit

ThreadSteps ==
    \/ \E t \in Threads : audio_callback(t)
    \/ \E t \in Threads : ConnectTranscriber(t)
    \/ \E t \in Threads : ConnectClassifier(t)
    \/ \E t \in Threads : LoopStop(t)
    \/ \E t \in Threads : LoopDequeue(t)
    \/ \E t \in Threads : SendBlock(t)
    \/ \E t \in Threads : SendEos(t)
    \/ \E t \in Threads : Finally(t)

NextBridge == ControlStep({"A"}) \/ ThreadSteps

SpecBridge == InitBridge /\ [][NextBridge]_vars

NextBridge2 == ControlStep(Conns) \/ ThreadSteps

SpecBridge2 == InitBridge /\ [][NextBridge2]_vars

(***************************************************************************)
(* One control connection that only starts and stops, with the stop        *)
(* commands that arrive during Starting recorded.                          *)
(***************************************************************************)
audio_callback_few(t) == Capture(t, MaxEarlyBlocks)

\* a capture thread that is alive runs: each of its awaits returns (the
\* connects and sends end, by success or by error)
ThreadProgress ==
    \E t \in Threads :
        \/ ConnectTranscriber(t)
        \/ ConnectClassifier(t)
        \/ LoopStop(t)
        \/ LoopDequeue(t)
        \/ SendBlock(t)
        \/ SendEos(t)
        \/ Finally(t)

NextStartStop ==
    \/ Accept("A")
    \/ RecvStart("A")
    \/ RecvStopTracked("A")
    \/ JoinReturn
    \/ \E t \in Threads : audio_callback_few(t)
    \/ ThreadProgress

SpecStartStop == InitBridge /\ [][NextStartStop]_vars

SpecStartStopFair == SpecStartStop /\ WF_vars(ThreadProgress)

(***************************************************************************)
(* A client that disconnects and connects again: connection "B" is         *)
(* accepted once connection "A" has ended.                                 *)
(***************************************************************************)
Reconnect(c) ==
    /\ conn["A"] = "closed"
    /\ Accept(c)

NextReconnect ==
    \/ Accept("A")
    \/ Reconnect("B")
    \/ \E c \in Conns : RecvStart(c)
    \/ \E c \in Conns : RecvStopTracked(c)
    \/ JoinReturn
    \/ \E c \in Conns : Disconnect(c)
    \/ FinishExit
    \/ \E t \in Threads : audio_callback_few(t)
    \/ ThreadProgress

SpecReconnect == InitBridge /\ [][NextReconnect]_vars

SpecReconnectFair == SpecReconnect /\ WF_vars(ThreadProgress)

(***************************************************************************)
(* The bridge with its listeners: listen_to_transcriber and                *)
(* listen_to_classifier hand each consumer message to send_to_react, the   *)
(* only writer of the control channel.                                     *)
(***************************************************************************)
\* the listener tasks exist from line 134 until they are cancelled (line 179)
\* or their connection is closed
Listening(t) ==
    /\ thr[t].ws_t = "open" /\ thr[t].ws_c = "open"
    /\ \/ thr[t].pc \in {"loop", "send", "eos"}
       \/ thr[t].pc = "finally" /\ thr[t].why = "devfail"

\* line 53: control_ws_ref is set and its client_state is not DISCONNECTED
ChannelUsable == control_ws_ref # None /\ conn[control_ws_ref] # "closed"

\* the message written twice
send_to_react_twice(log, msg) ==
    IF ChannelUsable
      THEN Append(Append(log, [msg EXCEPT !.to = control_ws_ref]),
                  [msg EXCEPT !.to = control_ws_ref])
      ELSE log

\* the write without the test of line 53
send_to_react_unchecked(log, msg) == Append(log, [msg EXCEPT !.to = control_ws_ref])

\* send_to_react: the message is written to control_ws_ref if the test of line
\* 53 passes, and otherwise nothing happens
send_to_react(log, msg) ==
    IF ChannelUsable THEN Append(log, [msg EXCEPT !.to = control_ws_ref])
    ELSE log

RECURSIVE RxUpTo(_)
RxUpTo(k) == IF k = 0 THEN 0 ELSE thr[k].rx.t + thr[k].rx.c + RxUpTo(k - 1)

\* consumer messages the listeners have taken so far, over all threads
Consumed == RxUpTo(MaxThreads)

\* one iteration of "async for msg in ws": the listener of consumer w takes the
\* consumer's next message (its rx[w]+1-th) and hands it to send_to_react
ListenerForward(t, w) ==
    /\ Listening(t)
    /\ Consumed < MaxFwd
    /\ LET n == thr[t].rx[w] + 1 IN
         ThreadStep(t, [thr[t] EXCEPT !.rx[w] = n,
                           !.fwd = send_to_react(@, [from |-> w, n |-> n, to |-> None])])
    /\ UNCHANGED <<stop_event, audio_q>>

NextNotify ==
    \/ NextBridge
    \/ \E t \in Threads, w \in {"t", "c"} : ListenerForward(t, w)

SpecNotify == InitBridge /\ [][NextNotify]_vars

(***************************************************************************)
(* One control connection, its capture threads and their listeners, with   *)
(* the consumer messages numbered in the order the consumer emits them.    *)
(***************************************************************************)
RecvStartFew(c) ==
    /\ NumThreads < MaxRelayThreads
    /\ RecvStart(c)

NextRelay ==
    \/ Accept("A")
    \/ RecvStartFew("A")
    \/ RecvStop("A")
    \/ JoinReturn
    \/ Disconnect("A")
    \/ FinishExit
    \/ \E t \in Threads : audio_callback_few(t)
    \/ ThreadProgress
    \/ \E t \in Threads, w \in {"t", "c"} : ListenerForward(t, w)

SpecRelay == InitBridge /\ [][NextRelay]_vars

\* the transcriber answers the end marker: its final result arrives on ws_t
\* while the connection is still open; thr[t].late counts the messages that
\* arrived after the marker was sent and that no listener has taken
TranscriberFinal(t) ==
    /\ thr[t].eos_t = "sent"
    /\ thr[t].ws_t = "open"
    /\ thr[t].late < MaxLate
    /\ ThreadStep(t, [thr[t] EXCEPT !.late = @ + 1])
    /\ UNCHANGED <<stop_event, audio_q>>

\* the same, with the transcriber's answers to the end marker
NextDrain ==
    \/ NextRelay
    \/ \E t \in Threads : TranscriberFinal(t)

SpecDrain == InitBridge /\ [][NextDrain]_vars

(***************************************************************************)
(* Two control connections open at the same time, each with its own        *)
(* handler coroutine on the one event loop, and the listeners.             *)
(***************************************************************************)
NextTwo ==
    \/ \E c \in Conns : Accept(c)
    \/ \E c \in Conns : RecvStartFew(c)
    \/ \E c \in Conns : RecvStop(c)
    \/ JoinReturn
    \/ \E c \in Conns : Disconnect(c)
    \/ FinishExit
    \/ \E t \in Threads : audio_callback_few(t)
    \/ ThreadProgress
    \/ \E t \in Threads, w \in {"t", "c"} : ListenerForward(t, w)

SpecTwo == InitBridge /\ [][NextTwo]_vars

(***************************************************************************)
(* The frame queue at its real capacity: one session that is started and   *)
(* streams, its consumers accepting every block, while the callback fires  *)
(* up to MaxCapture times.                                                 *)
(***************************************************************************)
audio_callback_full(t) == Capture(t, MaxCapture)

SendBlockOk(t) == SendBlockWith(t, "ok", "ok")

NextQueue ==
    \/ Accept("A")
    \/ RecvStart("A")
    \/ \E t \in Threads : audio_callback_full(t)
    \/ \E t \in Threads : ConnectTranscriber(t)
    \/ \E t \in Threads : ConnectClassifier(t)
    \/ \E t \in Threads : LoopDequeue(t)
    \/ \E t \in Threads : SendBlockOk(t)
    \/ \E t \in Threads : Finally(t)

SpecQueue == InitBridge /\ [][NextQueue]_vars

(***************************************************************************)
(* Properties of the bridge.                                               *)
(***************************************************************************)

\* C1: on one control connection at most one capture thread started by that
\* connection is alive at any instant; a start received while the connection's
\* capture thread is alive launches no second one.
C1_AtMostOneCaptureThread ==
    \A c \in Conns : Cardinality({t \in Threads : thr[t].owner = c /\ Alive(t)}) <= 1

C1_Witness ==
    /\ last.action = "start"
    /\ last.effect = "ignored"
    /\ mic_thread[last.c] # 0
    /\ Alive(mic_thread[last.c])

\* C2: every block a capture loop dequeues and sends to its consumers was
\* enqueued after the flush of the start command that launched the loop, so a
\* block of an earlier session never reaches the consumers of a later one.
C2_NoStaleBlocks ==
    \A t \in Threads :
        /\ \A i \in 1..Len(thr[t].deq) : thr[t].deq[i].ep >= thr[t].startEp
        /\ \A i \in 1..Len(thr[t].sent) : thr[t].sent[i].blk.ep >= thr[t].startEp

C2_Witness ==
    /\ nflushed > 0
    /\ \E t \in Threads : thr[t].startEp >= 2 /\ Len(thr[t].sent) > 0

\* C4: in the streaming loop, while the transcriber accepts every send the
\* loop is never halted by a failing classifier and the transcriber receives
\* every dequeued block (and symmetrically); a block both consumers fail on
\* halts the loop, and it is the last block the loop sends.
AllSentTo(t, who) ==
    \A i \in 1..Len(thr[t].sent) :
        IF who = "t" THEN thr[t].sent[i].t ELSE thr[t].sent[i].c

Delivered(t) == [i \in 1..Len(thr[t].sent) |-> thr[t].sent[i].blk]

C4_FanoutIsolation ==
    \A t \in Threads :
        /\ \A who \in {"t", "c"} :
              AllSentTo(t, who) =>
                 /\ thr[t].why # "fail"
                 /\ thr[t].pc # "send" => Delivered(t) = thr[t].deq
        /\ \A i \in 1..Len(thr[t].sent) :
              (~thr[t].sent[i].t /\ ~thr[t].sent[i].c) =>
                 /\ i = Len(thr[t].sent)
                 /\ thr[t].why = "fail"
                 /\ thr[t].pc \in {"eos", "finally", "dead"}
                 /\ Len(thr[t].deq) = i

C4_Witness ==
    \E t \in Threads :
        /\ Len(thr[t].sent) >= 2
        /\ AllSentTo(t, "t")
        /\ \A i \in 1..Len(thr[t].sent) : ~thr[t].sent[i].c
        /\ thr[t].pc = "loop"

\* C5: the frame queue never holds more than 64 blocks; a callback that fires
\* while it holds 64 drops the new block, leaves the queue as it was and
\* returns normally.
C5_QueueBounded ==
    /\ [](Len(audio_q) <= AUDIO_Q_MAXSIZE)
    /\ [][(captured' # captured /\ Len(audio_q) = AUDIO_Q_MAXSIZE)
            => (audio_q' = audio_q /\ cb_last' \in {"dropped", "skipped"})]_vars

C5_Witness ==
    /\ cb_last = "dropped"
    /\ Len(audio_q) = AUDIO_Q_MAXSIZE

Opened(ws) == ws \in {"open", "closed"}

LoopExits == {"stop", "fail"}

\* C13: on every exit path of the capture thread (stop command, total fan-out
\* failure, consumer connection failure, device failure) every consumer
\* connection that was opened is closed and the stop signal is cleared when
\* the thread terminates; the capture device is closed by then, and a later
\* start on the connection may launch a new thread.
C13_CleanupOnEveryExit ==
    /\ [](\A t \in Threads :
            thr[t].pc = "dead" =>
               /\ thr[t].ws_t # "open"
               /\ thr[t].ws_c # "open"
               /\ ~thr[t].stream
               /\ thr[t].why \in {"stop", "fail", "connfail", "devfail"}
               /\ \A c \in Conns : mic_thread[c] = t => MayLaunch(c))
    /\ [][\A t \in Threads :
            (thr[t].pc # "dead" /\ thr'[t].pc = "dead") =>
               /\ ~stop_event'
               /\ Opened(thr[t].ws_t) => thr'[t].ws_t = "closed"
               /\ Opened(thr[t].ws_c) => thr'[t].ws_c = "closed"]_vars

C13_Witness ==
    /\ \E t \in Threads :
          /\ thr[t].pc = "dead" /\ thr[t].why = "fail"
          /\ thr[t].ws_t = "closed" /\ thr[t].ws_c = "closed"
    /\ \E t \in Threads :
          /\ thr[t].pc = "dead" /\ thr[t].why = "connfail"
          /\ thr[t].ws_t = "closed" /\ thr[t].ws_c = "none"

\* C14, as claimed: once the capture loop has left Streaming (stop command or
\* fan-out failure) and the thread has closed its connections, the
\* end-of-stream marker was sent to the transcriber and to the classifier.
C14_Original ==
    \A t \in Threads :
        (thr[t].pc = "dead" /\ thr[t].why \in LoopExits) =>
            /\ thr[t].ws_t = "closed" => thr[t].eos_t = "sent"
            /\ thr[t].ws_c = "closed" => thr[t].eos_c = "sent"

\* C14, amended: when the capture loop leaves Streaming (stop command or
\* fan-out failure), one send of the end-of-stream marker is attempted, to the
\* transcriber only and while its connection is still open (the send may fail,
\* which is only logged); the classifier is sent no marker, its connection is
\* just closed.
C14_Amended ==
    /\ [](\A t \in Threads :
            /\ thr[t].eos_c = "none"
            /\ (thr[t].pc \in {"finally", "dead"} /\ thr[t].why \in LoopExits)
                  => thr[t].eos_t \in {"sent", "failed"}
            /\ thr[t].why \notin LoopExits => thr[t].eos_t = "none")
    /\ [][\A t \in Threads :
            thr'[t].eos_t # thr[t].eos_t =>
               /\ thr[t].eos_t = "none"
               /\ thr[t].ws_t = "open" /\ thr'[t].ws_t = "open"
               /\ thr[t].ws_c = "open" /\ thr'[t].ws_c = "open"]_vars

C14_Witness ==
    \E t \in Threads :
        /\ thr[t].pc = "dead" /\ thr[t].why = "stop"
        /\ thr[t].eos_t = "sent" /\ thr[t].eos_c = "none"
        /\ thr[t].ws_t = "closed" /\ thr[t].ws_c = "closed"
        /\ Len(thr[t].sent) > 0

NoThreadAlive == \A t \in Threads : ~Alive(t)

StreamOpen == \E t \in Threads : thr[t].stream

\* the session of the last command is Idle again after a stop: the thread the
\* stop was for has terminated
IdleAfterStop ==
    /\ last.action = "stop"
    /\ mic_thread[last.c] # 0
    /\ thr[mic_thread[last.c]].why = "stop"
    /\ NoThreadAlive

C16_ConnectBeforeStreaming ==
    \A t \in Threads :
        /\ (thr[t].deq # <<>> \/ thr[t].sent # <<>> \/ thr[t].stream) =>
               (Opened(thr[t].ws_t) /\ Opened(thr[t].ws_c))
        /\ thr[t].pc \in {"loop", "send"} =>
               (thr[t].ws_t = "open" /\ thr[t].ws_c = "open")
        /\ (thr[t].pc \in {"finally", "dead"} /\ ~(Opened(thr[t].ws_t) /\ Opened(thr[t].ws_c))) =>
               /\ thr[t].why = "connfail"
               /\ thr[t].deq = <<>> /\ thr[t].sent = <<>>
               /\ ~thr[t].stream
               /\ thr[t].ws_c = "none"
               /\ thr[t].pc = "dead" =>
                     /\ thr[t].ws_t \in {"none", "closed"}
                     /\ \A c \in Conns : mic_thread[c] = t => MayLaunch(c)
        /\ thr[t].why = "connfail" => ~(Opened(thr[t].ws_t) /\ Opened(thr[t].ws_c))

C16_Witness ==
    /\ \E t \in Threads :
          /\ thr[t].pc = "dead" /\ thr[t].why = "connfail"
          /\ thr[t].ws_t = "closed" /\ thr[t].ws_c = "none"
    /\ \E t \in Threads : thr[t].pc = "loop" /\ thr[t].sent # <<>>

\* C17: whenever the capture loop terminates because of fatal session I/O (a
\* consumer connection cannot be established at start, or every consumer
\* fails to accept a block), an error event of the bridge is sent to the
\* client on the control channel.
C17_ErrorEventSent ==
    \A t \in Threads :
        (thr[t].pc = "dead" /\ thr[t].why \in {"connfail", "fail"}) =>
            \E i \in 1..Len(thr[t].fwd) : thr[t].fwd[i].from = "bridge"

\* a step that handles a command with this action, other than a repetition
\* of the last command that changes nothing
Handles(action) == last' # last /\ last'.action = action

\* C18: a start command received while the connection's capture thread is
\* alive (Starting, Streaming, or Stopping still in flight) changes nothing:
\* the stop signal, the frame queue and the capture threads are left as they
\* were and the command is discarded.
C18_StartWhileAliveIgnored ==
    [][\A c \in Conns :
         (Handles("start") /\ last'.c = c /\ mic_thread[c] # 0 /\ Alive(mic_thread[c])) =>
            /\ last'.effect = "ignored"
            /\ stop_event' = stop_event
            /\ audio_q' = audio_q
            /\ thr' = thr
            /\ mic_thread' = mic_thread
            /\ flushes' = flushes]_vars

C18_Witness ==
    /\ last.action = "start" /\ last.effect = "ignored"
    /\ stop_event
    /\ audio_q # <<>>
    /\ \E t \in Threads : thr[t].pc = "loop" /\ mic_thread[last.c] = t

\* C20: a stop command received while the session is Idle (no capture thread
\* alive) leaves the session Idle with nothing to join, so any number of them
\* do; the next start command still launches a capture thread, with the stop
\* signal cleared, and a capture loop leaves by "stop" only when the stop
\* signal is set.
C20_StopWhileIdle ==
    /\ [][(Handles("stop") /\ NoThreadAlive) =>
            /\ last'.effect = "idle"
            /\ stop_event'
            /\ thr' = thr /\ mic_thread' = mic_thread /\ audio_q' = audio_q
            /\ ctl' = Idle]_vars
    /\ [][(last.action = "stop" /\ last.effect = "idle" /\ NoThreadAlive /\ Handles("start")) =>
            /\ last'.effect = "launched"
            /\ ~stop_event'
            /\ mic_thread'[last'.c] # 0
            /\ thr'[mic_thread'[last'.c]].pc = "connect_t"]_vars
    /\ [][\A t \in Threads :
            (thr[t].pc = "loop" /\ thr'[t].pc # "loop") =>
               \/ stop_event /\ thr'[t].why = "stop"
               \/ ~stop_event /\ thr'[t].pc = "send"]_vars

\* a stop handled while Idle, after a session that streamed and was stopped:
\* the stop signal is set although no thread is alive, and a start is due
C20_Witness ==
    /\ last.action = "stop" /\ last.effect = "idle"
    /\ stop_event
    /\ NoThreadAlive
    /\ NumThreads < MaxThreads
    /\ \E t \in Threads : thr[t].why = "stop" /\ thr[t].sent # <<>>

\* what holds of a thread that a stop command reached while it was Starting
StoppedEarlyOk ==
    \A t \in Threads :
        thr[t].early =>
            /\ thr[t].deq = <<>> /\ thr[t].sent = <<>>
            /\ thr[t].pc \in {"connect_t", "connect_c", "loop", "eos", "finally", "dead"}
            /\ thr[t].pc \in {"connect_t", "connect_c", "loop"} => stop_event
            /\ thr[t].pc \in {"eos", "finally", "dead"} =>
                  thr[t].why \in {"stop", "connfail", "devfail"}
            /\ thr[t].pc = "dead" =>
                  /\ thr[t].ws_t # "open" /\ thr[t].ws_c # "open" /\ ~thr[t].stream
                  /\ \A c \in Conns : mic_thread[c] = t => MayLaunch(c)

\* C19: a stop command that arrives while the capture thread is still
\* Starting is not lost: the stop signal stays set until the thread has passed
\* its loop test, the thread dequeues and sends no block and, running on,
\* terminates with its connections closed and the session reusable.
C19_StopWhileStarting ==
    /\ []StoppedEarlyOk
    /\ \A t \in Threads : thr[t].early ~> (thr[t].pc = "dead")

C19_Witness ==
    \E t \in Threads :
        /\ thr[t].early
        /\ thr[t].pc = "dead" /\ thr[t].why = "stop"
        /\ thr[t].ws_t = "closed" /\ thr[t].ws_c = "closed"
        /\ thr[t].eos_t = "sent"
        /\ captured = 0

\* C21: a control text that is not a well-formed start or stop command
\* (unparseable text, a JSON object with no start/stop action, or parseable
\* JSON that is not an object) is dropped without effect: the stop signal, the
\* frame queue and the capture threads are unchanged and the control
\* connection stays open for later commands.
C21_MalformedDropped ==
    [][(Handles("unparseable") \/ Handles("other") \/ Handles("nonobject")) =>
          /\ stop_event' = stop_event
          /\ audio_q' = audio_q
          /\ thr' = thr
          /\ mic_thread' = mic_thread
          /\ conn' = conn
          /\ ctl' = ctl]_vars

\* C22: when the control client disconnects, the stop signal is set; a capture
\* thread whose client has disconnected eventually terminates with its
\* consumer connections closed; and once the handler has returned the
\* control-channel reference no longer names the closed channel, to which
\* nothing is written.
C22_DisconnectCleansUp ==
    /\ [][Handles("disconnect") => stop_event']_vars
    /\ \A t \in Threads :
          (Alive(t) /\ conn[thr[t].owner] = "closed")
             ~> (thr[t].pc = "dead" /\ thr[t].ws_t # "open" /\ thr[t].ws_c # "open")
    /\ [](\A c \in Conns :
            (conn[c] = "closed" /\ ctl.who # c) => control_ws_ref # c)

\* the messages of consumer w among those thread t's listeners have written to
\* the control channel, in the order of writing
PerConsumer(t, w) == SelectSeq(thr[t].fwd, LAMBDA m : m.from = w)

\* C23: the messages forwarded from one consumer are messages that consumer
\* emitted, each forwarded at most once and in emission order (their numbers
\* strictly increase along the control channel); messages of the two
\* consumers interleave freely.
C23_PerConsumerOrder ==
    \A t \in Threads, w \in {"t", "c"} :
        LET s == PerConsumer(t, w) IN
        /\ \A i \in 1..Len(s) : s[i].n \in 1..thr[t].rx[w]
        /\ \A i, j \in 1..Len(s) : i < j => s[i].n < s[j].n

C23_Witness ==
    \E t \in Threads :
        /\ Len(thr[t].fwd) = 3
        /\ thr[t].fwd[1].from = "t" /\ thr[t].fwd[2].from = "c" /\ thr[t].fwd[3].from = "t"
        /\ thr[t].fwd[3].n = 2

\* C24: when a thread that was stopped has closed its connections, no final
\* result of the transcriber is left unforwarded: every message that arrived
\* in answer to the end marker was taken by the listener and written to the
\* control channel before the listener was cancelled.
C24_DrainBeforeClose ==
    \A t \in Threads :
        (thr[t].pc = "dead" /\ thr[t].why = "stop" /\ thr[t].eos_t = "sent")
            => thr[t].late = 0

\* C25: a consumer message taken while the control channel is closed or
\* absent is dropped: nothing is written, the listener is still listening
\* afterwards, and the capture loop, the stop signal and the frame queue are
\* as before.
C25_DroppedWhenNoChannel ==
    [][\A t \in Threads, w \in {"t", "c"} :
          (thr'[t].rx[w] = thr[t].rx[w] + 1 /\ ~ChannelUsable) =>
              /\ thr'[t].fwd = thr[t].fwd
              /\ thr'[t].pc = thr[t].pc
              /\ thr'[t].stream = thr[t].stream
              /\ Listening(t)'
              /\ stop_event' = stop_event
              /\ audio_q' = audio_q]_vars

C25_Witness ==
    \E t \in Threads :
        /\ control_ws_ref = None
        /\ conn["A"] = "closed"
        /\ thr[t].pc = "loop"
        /\ thr[t].rx.t >= 1 /\ thr[t].rx.c >= 1
        /\ thr[t].fwd = <<>>

\* session a's thread is in its capture loop
Streaming(a) == mic_thread[a] # 0 /\ thr[mic_thread[a]].pc \in {"loop", "send"}

\* C26: while session a is streaming, a command or a disconnect handled on
\* another connection b neither sets the stop signal that a's loop tests nor
\* changes the frame queue a's loop reads.
C26_NotSharedAcrossSessions ==
    [][\A a, b \in Conns :
          (a # b /\ Streaming(a) /\ last' # last /\ last'.c = b) =>
              /\ stop_event' => stop_event
              /\ audio_q' = audio_q]_vars

\* C27: every consumer message forwarded by the listeners of a capture thread
\* is written to the control channel of the session that started the thread.
C27_ForwardedToOwner ==
    \A t \in Threads :
        \A i \in 1..Len(thr[t].fwd) : thr[t].fwd[i].to = thr[t].owner

\* C29: at the step by which the handler is done with a stop command of
\* connection c (the join returns, or there was no live thread to join), the
\* device stream of c's capture thread is closed.
C29_StreamClosedWhenStopReturns ==
    [][\A c \in Conns :
          (/\ ctl' = Idle
           /\ \/ ctl.at = "stop" /\ ctl.who = c
              \/ Handles("stop") /\ last'.c = c)
            => (mic_thread[c] = 0 \/ ~thr'[mic_thread[c]].stream)]_vars

\* the capture numbers of the blocks thread t handed to consumer w ("t" or
\* "c"), in the order of the sends
SentTo(t, w) ==
    LET got == SelectSeq(thr[t].sent, LAMBDA e : e[w])
    IN  [i \in 1..Len(got) |-> got[i].blk.seq]

Increasing(s) == \A i, j \in 1..Len(s) : i < j => s[i] < s[j]

InitFanout ==
    /\ BridgeIdle
    /\ ToggleOff
    /\ ExtraOff
    /\ fan_ws \in [t : BOOLEAN, c : BOOLEAN]
    /\ fan_log = <<>>
    /\ WorkerOff
    /\ ClsOff

FanoutCall ==
    /\ Len(fan_log) < MaxFanCalls
    /\ \E oT, oC \in {"ok", "exc"} :
         fan_log' = Append(fan_log,
                       [oT |-> oT, oC |-> oC,
                        res |-> process_audio_block(fan_ws.t, fan_ws.c, oT, oC)])
    /\ UNCHANGED <<fan_ws, bridgeVars, workerVars, clsVars, toggleVars, extraVars>>

SpecFanout == InitFanout /\ [][FanoutCall]_vars

\* C3: process_audio_block returns success exactly when at least one connected
\* consumer accepted the send, and failure exactly when every attempted send
\* failed or no consumer is connected.
C3_FanoutResult ==
    \A i \in 1..Len(fan_log) :
        LET e == fan_log[i]
            accepted == {w \in {"t", "c"} :
                           IF w = "t" THEN fan_ws.t /\ e.oT = "ok"
                                      ELSE fan_ws.c /\ e.oC = "ok"}
            attempted == {w \in {"t", "c"} : IF w = "t" THEN fan_ws.t ELSE fan_ws.c}
        IN  /\ e.res <=> (accepted # {})
            /\ ~e.res <=> (attempted = {} \/ accepted = {})

C3_Witness ==
    /\ fan_ws.t /\ fan_ws.c
    /\ \E i, j \in 1..Len(fan_log) :
         /\ fan_log[i].oT = "exc" /\ fan_log[i].oC = "ok" /\ fan_log[i].res
         /\ fan_log[j].oT = "exc" /\ fan_log[j].oC = "exc" /\ ~fan_log[j].res

(***************************************************************************)
(* The offline transcription service: websocket_transcribe (the handler)   *)
(* and offline_worker_process (the worker), in app.py and in w-app.py.     *)
(***************************************************************************)
SAMPLE_RATE == 16000

\* int(PARTIAL_SECONDS * SAMPLE_RATE): 1.5 s in app.py, 2.0 s in w-app.py
PartialSamples(v) == IF v = "app" THEN (15 * SAMPLE_RATE) \div 10 ELSE 2 * SAMPLE_RATE

\* MIN_SAMPLES: int(0.3 * SAMPLE_RATE) in app.py, int(0.5 * sr) in w-app.py
MinSamples(v) == IF v = "app" THEN (3 * SAMPLE_RATE) \div 10 ELSE (5 * SAMPLE_RATE) \div 10

\* overlap = int(1.0 * SAMPLE_RATE)
OverlapSamples == 1 * SAMPLE_RATE

\* mp.Queue(maxsize=32) in app.py, mp.Queue(maxsize=64) in w-app.py
MpQueueMax(v) == IF v = "app" THEN 32 ELSE 64

\* the sizes, in samples, of the binary frames a client sends: 200 ms blocks
\* (client.py) and 1 s blocks (shared/config/audio_config.py)
ChunkSizes == {3200, 16000}

\* a 200 ms frame
ClientChunk == (2 * SAMPLE_RATE) \div 10

\* what travels on input_q.  An item is its bytes: kind and n say what the
\* bytes are (the text of the end marker, or n samples of PCM); by and at
\* record who put it and how many samples had been put before it
Item(kind, n, by, at) == [kind |-> kind, n |-> n, by |-> by, at |-> at]

\* b"__EOS__" put by the handler
EOS(at) == Item("eos", 0, "handler", at)
Pcm(n, at) == Item("pcm", n, "client", at)

\* isinstance(item, bytes) and item == b"__EOS__"
IsEndMarker(item) == item.kind = "eos"

Size(b) == b.hi - b.lo

WorkerAlive == w_pc \in {"load", "read", "partial", "final"}

InitWorker ==
    /\ BridgeIdle
    /\ ToggleOff
    /\ ExtraOff
    /\ FanOff
    /\ ClsOff
    /\ variant \in {"app", "wapp"}
    /\ w_pc = "unborn"
    /\ w_buf = [lo |-> 0, hi |-> 0]
    /\ input_q = <<>>
    /\ output_q = <<>>
    /\ w_out = <<>>
    /\ w_calls = <<>>
    /\ w_eos = NotRead
    /\ h_pc = "accept"
    /\ h_chunks = 0
    /\ h_put = 0
    /\ h_waited = "none"
    /\ h_fwd = <<>>

WorkerFrame == UNCHANGED <<bridgeVars, fanVars, clsVars, toggleVars, extraVars, variant>>

\* ---- the handler ----
\* accept; without faster-whisper the handler reports it and closes, otherwise
\* it creates the queues, starts the worker and the output poller
HAccept ==
    /\ h_pc = "accept"
    /\ \E available \in BOOLEAN :
         IF available
           THEN /\ h_pc' = "recv"
                /\ w_pc' = "load"
           ELSE /\ h_pc' = "done"
                /\ UNCHANGED w_pc
    /\ UNCHANGED <<w_buf, input_q, output_q, w_out, w_calls, w_eos, h_chunks, h_put, h_waited, h_fwd>>
    /\ WorkerFrame

\* a binary frame: q.put(chunk) (blocks while the queue is full); w-app.py
\* forwards it only if is_speech(chunk)
RecvBytes(sizes, limit) ==
    /\ h_pc = "recv"
    /\ h_chunks < limit
    /\ \E n \in sizes, speech \in BOOLEAN :
         /\ variant = "app" => speech
         /\ IF speech
              THEN /\ Len(input_q) < MpQueueMax(variant)
                   /\ input_q' = Append(input_q, Pcm(n, h_put))
                   /\ h_put' = h_put + n
              ELSE UNCHANGED <<input_q, h_put>>
    /\ h_chunks' = h_chunks + 1
    /\ UNCHANGED <<w_pc, w_buf, output_q, w_out, w_calls, w_eos, h_pc, h_waited, h_fwd>>
    /\ WorkerFrame

HRecvBytes == RecvBytes(ChunkSizes, MaxChunks)

\* is_speech of a frame shorter than 30 ms: True without the VAD, else False
IsSpeechShort(vad_available) == ~vad_available

\* a binary frame whose seven bytes are those of the end marker: the handler
\* treats it as audio (w-app.py: if is_speech lets it through)
HRecvMarkerBytes ==
    /\ h_pc = "recv"
    /\ h_chunks < MaxChunks
    /\ \E vad_available \in BOOLEAN :
         /\ variant = "app" => ~vad_available
         /\ IF IsSpeechShort(vad_available)
              THEN /\ Len(input_q) < MpQueueMax(variant)
                   /\ input_q' = Append(input_q, Item("eos", 0, "client", h_put))
              ELSE UNCHANGED input_q
    /\ h_chunks' = h_chunks + 1
    /\ UNCHANGED <<w_pc, w_buf, output_q, w_out, w_calls, w_eos, h_pc, h_put, h_waited, h_fwd>>
    /\ WorkerFrame

\* {"event": "eos"}: put the end marker, then wait
HRecvEos ==
    /\ h_pc = "recv"
    /\ Len(input_q) < MpQueueMax(variant)
    /\ input_q' = Append(input_q, EOS(h_put))
    /\ h_pc' = "eos_wait"
    /\ UNCHANGED <<w_pc, w_buf, output_q, w_out, w_calls, w_eos, h_chunks, h_put, h_waited, h_fwd>>
    /\ WorkerFrame

HDisconnect ==
    /\ h_pc = "recv"
    /\ h_pc' = "cleanup"
    /\ UNCHANGED <<w_pc, w_buf, input_q, output_q, w_out, w_calls, w_eos, h_chunks, h_put,
                   h_waited, h_fwd>>
    /\ WorkerFrame

\* app.py: sleep(0.5) then join(timeout=2.0); w-app.py: sleep(1.5).  The
\* wait ends whether or not the worker has finished.
HWaitDone ==
    /\ h_pc = "eos_wait"
    /\ h_pc' = "cleanup"
    /\ h_waited' = IF WorkerAlive THEN "running" ELSE "exited"
    /\ UNCHANGED <<w_pc, w_buf, input_q, output_q, w_out, w_calls, w_eos, h_chunks, h_put, h_fwd>>
    /\ WorkerFrame

\* poll_output_queue, until it is cancelled by cleanup
HPoll ==
    /\ h_pc \in {"recv", "eos_wait"}
    /\ output_q # <<>>
    /\ h_fwd' = Append(h_fwd, Head(output_q))
    /\ output_q' = Tail(output_q)
    /\ UNCHANGED <<w_pc, w_buf, input_q, w_out, w_calls, w_eos, h_pc, h_chunks, h_put, h_waited>>
    /\ WorkerFrame

\* finally: cancel the poller; if the worker is alive put the end marker
\* (a blocking put) and go on to terminate it
HCleanup ==
    /\ h_pc = "cleanup"
    /\ IF WorkerAlive
         THEN /\ Len(input_q) < MpQueueMax(variant)
              /\ input_q' = Append(input_q, EOS(h_put))
              /\ h_pc' = "terminate"
         ELSE /\ h_pc' = "done"
              /\ UNCHANGED input_q
    /\ UNCHANGED <<w_pc, w_buf, output_q, w_out, w_calls, w_eos, h_chunks, h_put, h_waited, h_fwd>>
    /\ WorkerFrame

LeaveRunning(pc) == pc

\* worker_process.terminate(); join; (w-app.py: kill() if still alive)
TerminateWorker(pc) ==
    IF pc \in {"load", "read", "partial", "final"} THEN "terminated" ELSE pc

HTerminate ==
    /\ h_pc = "terminate"
    /\ w_pc' = TerminateWorker(w_pc)
    /\ h_pc' = "done"
    /\ UNCHANGED <<w_buf, input_q, output_q, w_out, w_calls, w_eos, h_chunks, h_put, h_waited, h_fwd>>
    /\ WorkerFrame

\* ---- the worker ----
\* output_q.put of a run of messages (blocks while the queue is full)
PutAll(msgs) ==
    /\ Len(output_q) + Len(msgs) <= MpQueueMax(variant)
    /\ output_q' = output_q \o msgs
    /\ w_out' = w_out \o msgs

\* import / model load; a failure is reported as one error and the worker ends
WLoad ==
    /\ w_pc = "load"
    /\ \E ok \in BOOLEAN :
         IF ok THEN /\ w_pc' = "read"
                    /\ UNCHANGED <<output_q, w_out>>
               ELSE /\ w_pc' = "crashed"
                    /\ PutAll(<<"error_load">>)
    /\ UNCHANGED <<w_buf, input_q, w_calls, w_eos, h_pc, h_chunks, h_put, h_waited, h_fwd>>
    /\ WorkerFrame

FlushAlways(v, size) == TRUE

\* if buf.size >= MIN_SAMPLES
FlushAllowed(v, size) == size >= MinSamples(v)

\* the end marker: the final flush if allowed, and break in either case
AfterEos(size) == IF FlushAllowed(variant, size) THEN "final" ELSE "exited"

Without(q, i) == SubSeq(q, 1, i - 1) \o SubSeq(q, i + 1, Len(q))

NewestFirst(q) == Len(q)

\* input_q.get takes the oldest item of the queue
NextOut(q) == 1

\* input_q.get: the end marker, or PCM bytes appended to buf
WRead ==
    /\ w_pc = "read"
    /\ input_q # <<>>
    /\ input_q' = Without(input_q, NextOut(input_q))
    /\ LET item == input_q[NextOut(input_q)] IN
       IF IsEndMarker(item)
         THEN /\ w_eos' = [r |-> Size(w_buf), nout |-> Len(w_out),
                           by |-> item.by, at |-> item.at]
              /\ w_pc' = AfterEos(Size(w_buf))
              /\ UNCHANGED w_buf
         ELSE /\ w_buf' = [w_buf EXCEPT !.hi = @ + item.n]
              /\ w_pc' = IF Size(w_buf) + item.n >= PartialSamples(variant)
                           THEN "partial" ELSE "read"
              /\ UNCHANGED w_eos
    /\ UNCHANGED <<output_q, w_out, w_calls, h_pc, h_chunks, h_put, h_waited, h_fwd>>
    /\ WorkerFrame

KeepNothing(b) == [lo |-> b.hi, hi |-> b.hi]

\* buf = buf[-overlap:] if buf.size > overlap else empty
KeepOverlap(b) ==
    IF Size(b) > OverlapSamples THEN [lo |-> b.hi - OverlapSamples, hi |-> b.hi]
                                ELSE [lo |-> b.hi, hi |-> b.hi]

\* what model.transcribe does: -1 it raises, n >= 0 it returns n segments
\* of text
PartialResults == {-1, 0, 1}
FinalResults == {-1, 0, 1, 2}

PartialMessages(res) ==
    IF res = -1 THEN <<"error_partial">>
    ELSE IF res > 0 THEN <<"partial">> ELSE <<>>

\* app.py puts one "final" per segment, w-app.py one for the joined text
FinalMessages(v, res) ==
    IF res = -1 THEN <<"error_final">>
    ELSE IF v = "app" THEN [i \in 1..res |-> "final"]
    ELSE IF res > 0 THEN <<"final">> ELSE <<>>

CrashOnRaise(res) == IF res = -1 THEN "crashed" ELSE "read"

\* the exception of a partial transcription is caught and the loop goes on
AfterPartial(res) == "read"

WPartial ==
    /\ w_pc = "partial"
    /\ \E res \in PartialResults :
         /\ w_calls' = Append(w_calls, [kind |-> "partial", lo |-> w_buf.lo,
                                        hi |-> w_buf.hi, res |-> res])
         /\ PutAll(PartialMessages(res))
         /\ w_pc' = AfterPartial(res)
    /\ w_buf' = KeepOverlap(w_buf)
    /\ UNCHANGED <<input_q, w_eos, h_pc, h_chunks, h_put, h_waited, h_fwd>>
    /\ WorkerFrame

WFinal ==
    /\ w_pc = "final"
    /\ \E res \in FinalResults :
         /\ w_calls' = Append(w_calls, [kind |-> "final", lo |-> w_buf.lo,
                                        hi |-> w_buf.hi, res |-> res])
         /\ PutAll(FinalMessages(variant, res))
    /\ w_pc' = "exited"
    /\ UNCHANGED <<w_buf, input_q, w_eos, h_pc, h_chunks, h_put, h_waited, h_fwd>>
    /\ WorkerFrame

NextWorker ==
    \/ HAccept
    \/ HRecvBytes
    \/ HRecvMarkerBytes
    \/ HRecvEos
    \/ HDisconnect
    \/ HWaitDone
    \/ HPoll
    \/ HCleanup
    \/ HTerminate
    \/ WLoad
    \/ WRead
    \/ WPartial
    \/ WFinal

SpecWorker == InitWorker /\ [][NextWorker]_vars

(***************************************************************************)
(* The handler beside a worker that is stuck (still loading its model, or  *)
(* inside a call that does not return) and never reads input_q, with       *)
(* enough frames to fill the queue.  The handler's own steps are fair: it  *)
(* runs whenever it is not blocked.                                        *)
(***************************************************************************)
HRecvBytesMany == RecvBytes({ClientChunk}, MaxStuckChunks)

NextStuck ==
    \/ HAccept
    \/ HRecvBytesMany
    \/ HRecvEos
    \/ HDisconnect
    \/ HWaitDone
    \/ HCleanup
    \/ HTerminate

SpecStuck ==
    /\ InitWorker
    /\ [][NextStuck]_vars
    /\ WF_vars(HWaitDone)
    /\ WF_vars(HCleanup)
    /\ WF_vars(HTerminate)

(***************************************************************************)
(* Properties of the offline worker.                                       *)
(***************************************************************************)
PartialCalls == SelectSeq(w_calls, LAMBDA c : c.kind = "partial")
FinalCalls == SelectSeq(w_calls, LAMBDA c : c.kind = "final")
Count(log, kinds) == Len(SelectSeq(log, LAMBDA m : m \in kinds))
EosRead == w_eos.r # -1

\* each call after the first is on a buffer that begins with the last
\* OverlapSamples samples of the previous call's buffer
OverlapChain(calls) ==
    \A i \in 1..Len(calls) :
        IF i = 1 THEN calls[i].lo = 0
        ELSE /\ calls[i].lo = calls[i-1].hi - OverlapSamples
             /\ calls[i].lo >= calls[i-1].lo
             /\ calls[i].hi >= calls[i-1].hi

\* C6, as claimed: once the chunks pushed before the end marker, k*W + r
\* samples in all, have been read, exactly k inference calls were made, each
\* on exactly W samples, each after the first beginning with the last O
\* samples of the previous call's buffer.
C6_Original ==
    EosRead =>
        /\ Len(PartialCalls) = w_buf.hi \div PartialSamples(variant)
        /\ \A i \in 1..Len(PartialCalls) :
              Size(PartialCalls[i]) = PartialSamples(variant)
        /\ OverlapChain(PartialCalls)

\* C6, amended: an inference call is made after each chunk that brings the
\* buffer to W samples or more, on the whole buffer (at least W samples, more
\* when the chunk overshoots); each call after the first begins with the last
\* O samples of the previous call's buffer, so m calls take at least
\* W + (m-1)*(W-O) samples, and between chunks fewer than W samples are
\* buffered.
C6_Amended ==
    LET W == PartialSamples(variant)
        m == Len(PartialCalls)
    IN  /\ \A i \in 1..m : Size(PartialCalls[i]) >= W
        /\ OverlapChain(PartialCalls)
        /\ m >= 1 => /\ w_buf.hi >= W + (m - 1) * (W - OverlapSamples)
                     /\ PartialCalls[m].hi <= w_buf.hi
        /\ w_pc = "read" => Size(w_buf) < W
        /\ (w_pc = "read" /\ m >= 1) => w_buf.lo = PartialCalls[m].hi - OverlapSamples

C6_Witness ==
    /\ EosRead
    /\ Len(PartialCalls) >= 2
    /\ Len(PartialCalls) # w_buf.hi \div PartialSamples(variant)
    /\ \E i \in 1..Len(PartialCalls) : Size(PartialCalls[i]) > PartialSamples(variant)

\* C8: when the end marker is read with r samples buffered, the worker makes
\* exactly one final inference call, on those r samples, if r >= MIN_SAMPLES,
\* and makes no call and emits nothing if r < MIN_SAMPLES; either way it
\* leaves its loop.
C8_FinalFlush ==
    /\ Len(FinalCalls) <= 1
    /\ FinalCalls # <<>> => EosRead /\ w_calls[Len(w_calls)].kind = "final"
    /\ EosRead =>
         /\ w_pc \in {"final", "exited", "terminated"}
         /\ w_pc = "final" => w_eos.r >= MinSamples(variant)
         /\ w_pc = "exited" =>
              IF w_eos.r >= MinSamples(variant)
                THEN /\ Len(FinalCalls) = 1
                     /\ Size(FinalCalls[1]) = w_eos.r
                     /\ FinalCalls[1].hi = w_buf.hi
                ELSE /\ FinalCalls = <<>>
                     /\ Len(w_out) = w_eos.nout
    /\ (w_pc = "exited") => EosRead

C8_Witness ==
    /\ w_pc = "exited"
    /\ w_eos.r >= MinSamples(variant)
    /\ Len(FinalCalls) = 1
    /\ Len(PartialCalls) >= 1

AllSucceed == \A i \in 1..Len(w_calls) : w_calls[i].res # -1
AllRaise == \A i \in 1..Len(w_calls) : w_calls[i].res = -1

\* C9, as claimed: after the eos frame, with inference succeeding, the worker
\* has put exactly one Final result and has exited when the handler's wait ends.
C9_Original ==
    (h_waited # "none" /\ h_pc = "done" /\ AllSucceed /\ w_pc # "crashed") =>
        /\ Count(w_out, {"final"}) = 1
        /\ h_waited = "exited"

\* C9, amended: after the eos frame, with inference succeeding, the worker
\* puts Final results only as the output of its one final inference call: none
\* if fewer than MIN_SAMPLES samples were buffered or the call returned no
\* text, else one (app.py: one per returned segment); it may still be running
\* when the handler's wait ends, and is then terminated by cleanup, so it is
\* not alive once the handler has finished.
C9_Amended ==
    /\ AllSucceed =>
         /\ Count(w_out, {"final"}) =
              IF FinalCalls = <<>> THEN 0
              ELSE IF variant = "app" THEN FinalCalls[1].res
              ELSE IF FinalCalls[1].res > 0 THEN 1 ELSE 0
         /\ (EosRead /\ w_eos.r < MinSamples(variant)) => Count(w_out, {"final"}) = 0
         /\ Count(w_out, {"final"}) > 0 => w_pc = "exited"
    /\ h_pc = "done" => ~WorkerAlive

C9_Witness ==
    /\ h_pc = "done"
    /\ h_waited = "exited"
    /\ w_pc = "exited"
    /\ AllSucceed
    /\ Len(PartialCalls) >= 1
    /\ Count(w_out, {"final"}) = 1

\* C10: if every inference call raises, the worker emits no Partial and no
\* Final, exactly one Error per attempted window (the final flush included),
\* goes back to reading after each failed window, and leaves its loop when it
\* reads the end marker.
C10_InferenceFailures ==
    AllRaise =>
        /\ Count(w_out, {"partial", "final"}) = 0
        /\ Count(w_out, {"error_partial"}) = Len(PartialCalls)
        /\ Count(w_out, {"error_final"}) = Len(FinalCalls)
        /\ w_calls # <<>> => w_pc # "crashed"
        /\ (w_calls # <<>> /\ ~EosRead) => w_pc \in {"read", "partial", "terminated"}
        /\ EosRead => w_pc \in {"final", "exited", "terminated"}

C10_Witness ==
    /\ AllRaise
    /\ w_pc = "exited"
    /\ Len(PartialCalls) >= 2
    /\ Len(FinalCalls) = 1
    /\ Count(w_out, {"error_partial", "error_final"}) = 3

\* C12: on every exit path of the /transcribe handler, cleanup sends the end
\* marker and terminates the worker, so cleanup always completes and the
\* worker is eventually not alive, even if the worker is stuck and never reads
\* its inbound queue (a full queue included).
C12_CleanupCompletes ==
    (h_pc = "cleanup") ~> (h_pc = "done" /\ ~WorkerAlive)

(***************************************************************************)
(* The sound classifier: classify_socket.                                  *)
(***************************************************************************)
YAMNET_INPUT_SIZE == 15600
TARGET_SAMPLE_RATE == 16000
INPUT_SAMPLE_RATE == 16000

\* the sizes, in samples, of the binary frames received: 200 ms blocks
\* (client.py), 500 ms blocks (the bridge), a frame of exactly one window and
\* a 2 s frame
ClsChunkSizes == {3200, 8000, 15600, 32000}

Max(a, b) == IF a >= b THEN a ELSE b

\* the length of resample_if_needed(wave, from_sr, to_sr);
\* (2*a + b) \div (2*b) is round(a / b) away from ties, which do not occur here
resample_if_needed(n, from_sr, to_sr) ==
    IF from_sr = to_sr \/ n = 0 THEN n
    ELSE Max(1, (2 * n * to_sr + from_sr) \div (2 * from_sr))

InitCls ==
    /\ BridgeIdle
    /\ ToggleOff
    /\ ExtraOff
    /\ FanOff
    /\ WorkerOff
    /\ ClsOff

ClsFrame == UNCHANGED <<bridgeVars, fanVars, workerVars, toggleVars, extraVars>>

\* accept; the connection is closed at once if the model did not load
ClsAccept ==
    /\ cls_pc = "accept"
    /\ \E loaded \in BOOLEAN : cls_pc' = IF loaded THEN "recv" ELSE "closed"
    /\ UNCHANGED <<cls_buf, cls_calls, cls_chunks, cls_sent>>
    /\ ClsFrame

WindowReadyStrict(size) == size > YAMNET_INPUT_SIZE

WindowReadyHalf(size) == 2 * size >= YAMNET_INPUT_SIZE

\* while buffer.size >= YAMNET_INPUT_SIZE
WindowReady(size) == size >= YAMNET_INPUT_SIZE

\* receive_bytes, normalize, resample, concatenate
ClsReceiveOf(sizes, limit) ==
    /\ cls_pc = "recv"
    /\ cls_chunks < limit
    /\ \E n \in sizes :
         LET m == resample_if_needed(n, INPUT_SAMPLE_RATE, TARGET_SAMPLE_RATE) IN
         /\ cls_buf' = [cls_buf EXCEPT !.hi = @ + m]
         /\ cls_pc' = IF WindowReady(Size(cls_buf) + m) THEN "drain" ELSE "recv"
    /\ cls_chunks' = cls_chunks + 1
    /\ UNCHANGED <<cls_calls, cls_sent>>
    /\ ClsFrame

ClsReceive == ClsReceiveOf(ClsChunkSizes, MaxClsChunks)

\* WebSocketDisconnect out of receive_bytes
ClsDisconnect ==
    /\ cls_pc = "recv"
    /\ cls_pc' = "closed"
    /\ UNCHANGED <<cls_buf, cls_calls, cls_chunks, cls_sent>>
    /\ ClsFrame

\* one turn of the inner loop: slice the window off the front, invoke, and
\* send the detection if it is confident and not ignored; an exception of
\* invoke or of send_json ends the handler
ClsWindow ==
    /\ cls_pc = "drain"
    /\ cls_calls' = Append(cls_calls, [lo |-> cls_buf.lo,
                                       hi |-> cls_buf.lo + YAMNET_INPUT_SIZE])
    /\ cls_buf' = [cls_buf EXCEPT !.lo = @ + YAMNET_INPUT_SIZE]
    /\ \E out \in {"quiet", "detect", "raise"} :
         /\ cls_sent' = IF out = "detect" THEN cls_sent + 1 ELSE cls_sent
         /\ cls_pc' = IF out = "raise" THEN "closed"
                      ELSE IF WindowReady(Size(cls_buf) - YAMNET_INPUT_SIZE) THEN "drain"
                      ELSE "recv"
    /\ UNCHANGED cls_chunks
    /\ ClsFrame

NextCls ==
    \/ ClsAccept
    \/ ClsReceive
    \/ ClsDisconnect
    \/ ClsWindow

SpecCls == InitCls /\ [][NextCls]_vars

\* C7: for chunks totalling n samples the handler makes floor(n / W) inference
\* calls, the i-th on samples [(i-1)*W, i*W) of the stream, in stream order,
\* and once a chunk is processed fewer than W samples remain buffered.
C7_ClassifierWindows ==
    /\ \A i \in 1..Len(cls_calls) :
          /\ cls_calls[i].lo = (i - 1) * YAMNET_INPUT_SIZE
          /\ cls_calls[i].hi = i * YAMNET_INPUT_SIZE
          /\ cls_calls[i].hi <= cls_buf.hi
    /\ cls_pc = "recv" =>
          /\ Len(cls_calls) = cls_buf.hi \div YAMNET_INPUT_SIZE
          /\ Size(cls_buf) < YAMNET_INPUT_SIZE
          /\ cls_buf.lo = Len(cls_calls) * YAMNET_INPUT_SIZE

C7_Witness ==
    /\ cls_pc = "recv"
    /\ cls_chunks >= 3
    /\ Len(cls_calls) >= 3
    /\ Size(cls_buf) > 0

\* int(SAMPLE_RATE * BLOCK_DURATION) of client.py: 200 ms at 16 kHz
ClientBlockSamples == (2 * TARGET_SAMPLE_RATE) \div 10

\* the k frames received so far were all blocks of ClientBlockSamples samples
\* (no frame is shorter, so the total tells)
OnlyClientBlocks(k) ==
    /\ cls_chunks = k
    /\ cls_buf.hi = k * ClientBlockSamples

\* C11: five 200 ms blocks (3200 samples each) delivered in order to a fresh
\* classifier connection: no inference after any of the first four, and
\* exactly one inference, on one complete window, when the fifth is processed.
C11_FiveBlocksOneWindow ==
    /\ \A k \in 0..4 :
          OnlyClientBlocks(k) => (cls_calls = <<>> /\ cls_pc # "drain")
    /\ OnlyClientBlocks(5) =>
          \/ cls_pc = "drain" /\ cls_calls = <<>>
          \/ /\ cls_pc \in {"recv", "closed"}
             /\ Len(cls_calls) = 1
             /\ cls_calls[1] = [lo |-> 0, hi |-> YAMNET_INPUT_SIZE]
             /\ Size(cls_buf) = 5 * ClientBlockSamples - YAMNET_INPUT_SIZE

C11_Witness ==
    /\ OnlyClientBlocks(5)
    /\ cls_pc = "recv"
    /\ Len(cls_calls) = 1

(***************************************************************************)
(* w-app.py: the translate toggle, with two /transcribe connections open   *)
(* at the same time, each with its own worker process.                     *)
(***************************************************************************)
ToggleFrame == UNCHANGED <<bridgeVars, fanVars, workerVars, clsVars, extraVars>>

\* lines 243-252: the worker of every connection is handed the one
\* module-level translate_enabled
TAccept(c) ==
    /\ ToggleFrame
    /\ sess[c].pc = "absent"
    /\ sess' = [sess EXCEPT ![c].pc = "open"]
    /\ UNCHANGED translate_enabled

\* line 299: translate_enabled.value = bool(data.get("enabled", False))
SetTranslate(flag, enabled) == enabled

\* lines 298-302
TToggle(c) ==
    /\ ToggleFrame
    /\ sess[c].pc = "open"
    /\ \E enabled \in BOOLEAN :
         /\ translate_enabled' = SetTranslate(translate_enabled, enabled)
         /\ sess' = [sess EXCEPT ![c].own = enabled]

\* lines 147, 174: "translate" if translate_flag.value else "transcribe"
task_type(flag) == IF flag THEN "translate" ELSE "transcribe"

\* the worker of connection c calls model.transcribe
TTranscribe(c) ==
    /\ ToggleFrame
    /\ sess[c].pc = "open"
    /\ Len(sess[c].calls) < MaxTaskCalls
    /\ sess' = [sess EXCEPT ![c].calls =
                  Append(@, [task |-> task_type(translate_enabled), own |-> sess[c].own])]
    /\ UNCHANGED translate_enabled

\* the connection ends (eos or disconnect) and its worker is terminated
TClose(c) ==
    /\ ToggleFrame
    /\ sess[c].pc = "open"
    /\ sess' = [sess EXCEPT ![c].pc = "closed"]
    /\ UNCHANGED translate_enabled

InitTranslate ==
    /\ BridgeIdle
    /\ FanOff
    /\ WorkerOff
    /\ ClsOff
    /\ ToggleOff
    /\ ExtraOff

NextTranslate ==
    \/ \E c \in Conns : TAccept(c)
    \/ \E c \in Conns : TToggle(c)
    \/ \E c \in Conns : TTranscribe(c)
    \/ \E c \in Conns : TClose(c)

SpecTranslate == InitTranslate /\ [][NextTranslate]_vars

\* C28: every model.transcribe call of a connection's worker uses the mode
\* that connection itself last asked for (transcribe until it toggles), so
\* a toggle on another connection never changes it.
C28_TogglePerSession ==
    \A c \in Conns :
        \A i \in 1..Len(sess[c].calls) :
            sess[c].calls[i].task = task_type(sess[c].calls[i].own)

(***************************************************************************)
(* The remote STT server (remote_stt.py): one /transcribe connection that *)
(* buffers the audio it receives and transcribes it in the handler        *)
(***************************************************************************)

RemoteFrame == UNCHANGED <<bridgeVars, fanVars, workerVars, clsVars, toggleVars, onlineVars, modeVars, captureVars>>

\* int(1.5 * SAMPLE_RATE)
RemotePartialSamples == (15 * SAMPLE_RATE) \div 10

\* the binary frames the proxy forwards; an empty frame is skipped
RemoteChunkSizes == ChunkSizes \cup {0}

RAccept ==
    /\ r_pc = "accept"
    /\ r_pc' = "recv"
    /\ UNCHANGED <<r_buf, r_calls, r_chunks, r_sent>>
    /\ RemoteFrame

RRecvBytes ==
    /\ r_pc = "recv"
    /\ r_chunks < MaxChunks
    /\ r_chunks' = r_chunks + 1
    /\ \E n \in RemoteChunkSizes :
         IF n = 0
         THEN UNCHANGED <<r_pc, r_buf>>
         ELSE /\ r_buf' = [r_buf EXCEPT !.hi = @ + n]
              /\ r_pc' = IF Size(r_buf) + n >= RemotePartialSamples
                         THEN "partial" ELSE "recv"
    /\ UNCHANGED <<r_calls, r_sent>>
    /\ RemoteFrame

\* the partial transcription runs in the handler: an exception leaves the
\* loop through finally, a result is sent even when it is empty
RPartial ==
    /\ r_pc = "partial"
    /\ \E res \in PartialResults :
         /\ r_calls' = Append(r_calls, [kind |-> "partial", lo |-> r_buf.lo,
                                        hi |-> r_buf.hi, res |-> res])
         /\ IF res = -1
            THEN /\ r_pc' = "closed"
                 /\ UNCHANGED <<r_buf, r_sent>>
            ELSE /\ r_sent' = Append(r_sent, "partial")
                 /\ r_buf' = KeepOverlap(r_buf)
                 /\ r_pc' = "recv"
    /\ UNCHANGED r_chunks
    /\ RemoteFrame

REos ==
    /\ r_pc = "recv"
    /\ r_pc' = IF Size(r_buf) > 0 THEN "final" ELSE "closed"
    /\ UNCHANGED <<r_buf, r_calls, r_chunks, r_sent>>
    /\ RemoteFrame

RFinal ==
    /\ r_pc = "final"
    /\ \E res \in FinalResults :
         /\ r_calls' = Append(r_calls, [kind |-> "final", lo |-> r_buf.lo,
                                        hi |-> r_buf.hi, res |-> res])
         /\ r_sent' = IF res = -1 THEN r_sent
                      ELSE r_sent \o [i \in 1..res |-> "final"]
    /\ r_pc' = "closed"
    /\ UNCHANGED <<r_buf, r_chunks>>
    /\ RemoteFrame

RDisconnect ==
    /\ r_pc = "recv"
    /\ r_pc' = "closed"
    /\ UNCHANGED <<r_buf, r_calls, r_chunks, r_sent>>
    /\ RemoteFrame

NextRemote ==
    \/ RAccept
    \/ RRecvBytes
    \/ RPartial
    \/ REos
    \/ RFinal
    \/ RDisconnect

\* the three transcription buffers side by side: a run follows either one
\* of the two offline workers or the remote handler
InitBuffers ==
    \/ InitWorker
    \/ /\ BridgeIdle
       /\ FanOff
       /\ WorkerOff
       /\ ClsOff
       /\ ToggleOff
       /\ r_pc = "accept"
       /\ r_buf = [lo |-> 0, hi |-> 0]
       /\ r_calls = <<>>
       /\ r_chunks = 0
       /\ r_sent = <<>>
       /\ OnlineOff
       /\ ModeOff
       /\ CaptureOff

NextBuffers ==
    \/ r_pc = "off" /\ NextWorker
    \/ NextRemote

SpecBuffers == InitBuffers /\ [][NextBuffers]_vars

\* the last OverlapSamples samples of b, or nothing when b has no more
LastOverlapOf(b, after) ==
    /\ after.hi = b.hi
    /\ Size(after) = IF Size(b) > OverlapSamples THEN OverlapSamples ELSE 0

\* after an inference window is consumed the buffer is exactly the
\* last second of the transcribed buffer (or empty if that had at most one
\* second), in both offline workers and in the remote handler
C31_OverlapKept ==
    [][ /\ (w_pc = "partial" /\ w_pc' = "read") => LastOverlapOf(w_buf, w_buf')
        /\ (r_pc = "partial" /\ r_pc' = "recv") => LastOverlapOf(r_buf, r_buf')
      ]_vars

\* hence whenever the next audio item is awaited the buffer holds
\* fewer samples than the partial threshold
C31_BelowThreshold ==
    /\ w_pc = "read" => Size(w_buf) < PartialSamples(variant)
    /\ r_pc = "recv" => Size(r_buf) < RemotePartialSamples

\* C31: the transcription buffers keep exactly the last second of every
\* transcribed window and so stay below the partial threshold between items
C31_BufferBounded == C31_OverlapKept /\ []C31_BelowThreshold

C31_Witness ==
    /\ r_pc = "recv"
    /\ Len(r_calls) = 2
    /\ r_calls[2].lo = r_calls[1].hi - OverlapSamples
    /\ Size(r_buf) = OverlapSamples

(***************************************************************************)
(* The inbound queue of the offline worker                                *)
(***************************************************************************)

\* the worker appends a chunk only when it is the one that continues the
\* stream of samples the handler has put on the queue
AppendsInPutOrder ==
    [][ w_buf'.hi # w_buf.hi =>
          \E i \in DOMAIN input_q :
             /\ input_q[i].kind = "pcm"
             /\ input_q[i].at = w_buf.hi
             /\ w_buf'.hi = input_q[i].at + input_q[i].n
             /\ input_q' = Without(input_q, i) ]_vars

\* once the end marker has been read the worker takes nothing from the queue
NothingAfterMarker ==
    [][ EosRead => /\ w_buf' = w_buf
                   /\ \/ input_q' = input_q
                      \/ /\ Len(input_q') = Len(input_q) + 1
                         /\ SubSeq(input_q', 1, Len(input_q)) = input_q ]_vars

\* when the marker is read, every sample put before it is in the stream the
\* buffer has been built from, and the final call transcribes up to there
AllBeforeMarkerAppended ==
    /\ EosRead => w_buf.hi = w_eos.at
    /\ \A i \in DOMAIN w_calls :
         w_calls[i].kind = "final" => w_calls[i].hi = w_eos.at

\* C32: the worker consumes the inbound queue in FIFO order: every chunk put
\* before the end marker is appended before the final flush is computed, and
\* no inbound item is processed after the end marker has been read
C32_InboundFifo ==
    AppendsInPutOrder /\ NothingAfterMarker /\ []AllBeforeMarkerAppended

C32_Witness ==
    /\ w_pc = "exited"
    /\ w_eos.by = "handler"
    /\ w_eos.at = 16000 + 3200 + 3200
    /\ Len(w_calls) = 1 /\ w_calls[1].kind = "final" /\ w_calls[1].lo = 0
    /\ input_q # <<>>

(***************************************************************************)
(* The end of an offline session                                          *)
(***************************************************************************)

\* the messages the worker put on output_q after it read the end marker
PutAfterMarker == SubSeq(w_out, w_eos.nout + 1, Len(w_out))

\* C33: every result the worker puts on the outbound queue in response to
\* the end marker has been sent to the client when the handler, after its
\* post-eos wait, has cancelled the output task and closed
C33_FinalResultsSent ==
    (h_waited # "none" /\ h_pc = "done" /\ EosRead /\ PutAfterMarker # <<>>)
        => Len(h_fwd) = Len(w_out)

\* C34: the worker reads an end marker only as a consequence of an eos
\* control frame or of the handler's cleanup: no binary audio frame,
\* whatever its bytes, makes the worker flush and leave its loop
C34_MarkerOnlyFromHandler ==
    EosRead => w_eos.by = "handler"

(***************************************************************************)
(* app.py in online mode: the handler puts what it receives on an         *)
(* asyncio.Queue and proxy_to_remote forwards it to the remote service    *)
(***************************************************************************)

OnlineFrame == UNCHANGED <<bridgeVars, fanVars, workerVars, clsVars, toggleVars, remoteVars, modeVars, captureVars>>

\* asyncio.Queue(maxsize=128)
AsyncQueueMax == 128

\* the n-th binary frame of the client, the None sentinel, the eos event
Chunk(n) == [kind |-> "bytes", n |-> n]
Sentinel == [kind |-> "none", n |-> 0]
EosEvent == [kind |-> "eos", n |-> 0]

ProxyAlive == proxy_task \in {"connecting", "running"}

\* current_mode is "online": create the queue and the proxy task
OAccept ==
    /\ o_pc = "accept"
    /\ o_pc' = "recv"
    /\ proxy_task' = "connecting"
    /\ UNCHANGED <<o_recv, o_exit, async_audio_queue, remote_sent>>
    /\ OnlineFrame

\* await async_audio_queue.put(item) returns at once when there is room
PutNow(item, then) ==
    IF Len(async_audio_queue) < AsyncQueueMax
    THEN /\ async_audio_queue' = Append(async_audio_queue, item)
         /\ o_pc' = then
    ELSE FALSE

\* ... and otherwise waits until a get has made room
PutOrWait(item, then, waiting) ==
    IF Len(async_audio_queue) < AsyncQueueMax
    THEN /\ async_audio_queue' = Append(async_audio_queue, item)
         /\ o_pc' = then
    ELSE /\ o_pc' = waiting
         /\ UNCHANGED async_audio_queue

\* a binary frame
ORecvBytes(limit) ==
    /\ o_pc = "recv"
    /\ o_recv < limit
    /\ o_recv' = o_recv + 1
    /\ PutOrWait(Chunk(o_recv + 1), "recv", "putting")
    /\ UNCHANGED <<o_exit, proxy_task, remote_sent>>
    /\ OnlineFrame

\* the put of the pending frame completes
OPutDone ==
    /\ o_pc = "putting"
    /\ PutNow(Chunk(o_recv), "recv")
    /\ UNCHANGED <<o_recv, o_exit, proxy_task, remote_sent>>
    /\ OnlineFrame

\* {"event": "eos"}: put the sentinel, then await proxy_task
ORecvEos ==
    /\ o_pc = "recv"
    /\ o_exit' = "eos"
    /\ PutOrWait(Sentinel, "await_proxy", "eos_put")
    /\ UNCHANGED <<o_recv, proxy_task, remote_sent>>
    /\ OnlineFrame

OEosPutDone ==
    /\ o_pc = "eos_put"
    /\ PutNow(Sentinel, "await_proxy")
    /\ UNCHANGED <<o_recv, o_exit, proxy_task, remote_sent>>
    /\ OnlineFrame

\* await proxy_task returns when the task is done
OProxyAwaited ==
    /\ o_pc = "await_proxy"
    /\ ~ProxyAlive
    /\ o_pc' = "cleanup"
    /\ UNCHANGED <<o_recv, o_exit, async_audio_queue, proxy_task, remote_sent>>
    /\ OnlineFrame

\* websocket.disconnect, seen by the receive the handler is waiting in
ODisconnect ==
    /\ o_pc = "recv"
    /\ o_pc' = "cleanup"
    /\ o_exit' = "disconnect"
    /\ UNCHANGED <<o_recv, async_audio_queue, proxy_task, remote_sent>>
    /\ OnlineFrame

\* finally: proxy_task.cancel(), close
OCleanup ==
    /\ o_pc = "cleanup"
    /\ o_pc' = "done"
    /\ proxy_task' = IF ProxyAlive THEN "cancelled" ELSE proxy_task
    /\ UNCHANGED <<o_recv, o_exit, async_audio_queue, remote_sent>>
    /\ OnlineFrame

\* sess.ws_connect: a failure is reported to the client and ends the task
PConnect ==
    /\ proxy_task = "connecting"
    /\ \E ok \in BOOLEAN : proxy_task' = IF ok THEN "running" ELSE "failed"
    /\ UNCHANGED <<o_pc, o_recv, o_exit, async_audio_queue, remote_sent>>
    /\ OnlineFrame

SendLast(q) == q[Len(q)]

\* chunk = await audio_queue.get()
GetFirst(q) == q[1]

\* one turn of the proxy loop: the sentinel sends eos (a failure of that
\* send is swallowed) and ends the loop, a chunk is sent as bytes (a
\* failure ends the task)
PForward ==
    /\ proxy_task = "running"
    /\ async_audio_queue # <<>>
    /\ LET chunk == GetFirst(async_audio_queue) IN
       /\ async_audio_queue' = SelectSeq(async_audio_queue, LAMBDA x : x # chunk)
       /\ \E ok \in BOOLEAN :
            IF chunk = Sentinel
            THEN /\ proxy_task' = IF ok THEN "ended" ELSE "ended_unsent"
                 /\ remote_sent' = IF ok THEN Append(remote_sent, EosEvent)
                                   ELSE remote_sent
            ELSE /\ proxy_task' = IF ok THEN "running" ELSE "failed"
                 /\ remote_sent' = IF ok THEN Append(remote_sent, chunk)
                                   ELSE remote_sent
    /\ UNCHANGED <<o_pc, o_recv, o_exit>>
    /\ OnlineFrame

InitOnline ==
    /\ BridgeIdle
    /\ FanOff
    /\ WorkerOff
    /\ ClsOff
    /\ ToggleOff
    /\ RemoteOff
    /\ ModeOff
    /\ CaptureOff
    /\ o_pc = "accept"
    /\ o_recv = 0
    /\ o_exit = "none"
    /\ async_audio_queue = <<>>
    /\ proxy_task = "none"
    /\ remote_sent = <<>>

ORecvChunk == ORecvBytes(MaxOnlineChunks)

NextOnline ==
    \/ OAccept
    \/ ORecvChunk
    \/ OPutDone
    \/ ORecvEos
    \/ OEosPutDone
    \/ OProxyAwaited
    \/ ODisconnect
    \/ OCleanup
    \/ PConnect
    \/ PForward

SpecOnline == InitOnline /\ [][NextOnline]_vars

EosAt == {i \in DOMAIN remote_sent : remote_sent[i] = EosEvent}

\* the chunks reach the remote in client order, none skipped or repeated
ChunksInClientOrder ==
    \A i \in DOMAIN remote_sent : remote_sent[i].kind = "bytes" => remote_sent[i].n = i

\* eos is sent only for the client's eos, after every chunk received before
\* it, and it is the last thing sent
EosLast ==
    \A i \in EosAt :
        /\ o_exit = "eos"
        /\ i = Len(remote_sent)
        /\ i = o_recv + 1

\* C35: in online mode the chunks are forwarded to the remote in client
\* order, and the eos event is sent once the sentinel's send has gone
\* through, exactly once, after every chunk the client sent before its eos
\* and with no chunk after it
C35_ForwardedInOrderThenEos ==
    /\ ChunksInClientOrder
    /\ EosLast
    /\ Cardinality(EosAt) <= 1
    /\ proxy_task = "ended" => Cardinality(EosAt) = 1

C35_Witness ==
    /\ o_pc = "done"
    /\ o_exit = "eos"
    /\ remote_sent = <<Chunk(1), Chunk(2), Chunk(3), EosEvent>>

\* the event loop runs whichever of the handler and the proxy task can take
\* a step, and the client goes on until it ends the session
SpecOnlineFair == SpecOnline /\ WF_vars(NextOnline)

ProxyOver == proxy_task \in {"failed", "ended", "ended_unsent"}

\* C36: once the proxy has failed or ended the handler still makes
\* progress: whatever the client sends afterwards, its eos or disconnect is
\* eventually processed and the handler reaches cleanup
C36_HandlerReachesCleanup ==
    ProxyOver ~> o_pc \in {"cleanup", "done"}

(***************************************************************************)
(* The mode of the transcription service: /set_mode, /get_mode and the    *)
(* mode a /transcribe connection works in                                 *)
(***************************************************************************)

ModeFrame == UNCHANGED <<bridgeVars, fanVars, workerVars, clsVars, toggleVars, remoteVars, onlineVars, captureVars>>

\* what a client may put in the path of /set_mode/{mode}
ModeInputs == {"offline", "online", "OFFLINE", "Online", "hybrid", "on-line", "ONLINE "}

\* str.lower on these inputs
lower(s) ==
    CASE s = "OFFLINE" -> "offline"
      [] s = "Online" -> "online"
      [] s = "ONLINE " -> "online "
      [] OTHER -> s

AcceptAll(m) == TRUE

\* mode in ("offline", "online")
ModeKnown(m) == m \in {"offline", "online"}

\* POST /set_mode/{mode}; also what mode_cli.py set sends, which lowers the
\* argument itself first
set_mode(arg) ==
    /\ LET mode == lower(arg) IN
       IF ~ModeKnown(mode)
       THEN /\ rest_last' = [ep |-> "set_mode", arg |-> arg, reply |-> "error", mode |-> ""]
            /\ UNCHANGED MODE
       ELSE /\ MODE' = mode
            /\ rest_last' = [ep |-> "set_mode", arg |-> arg, reply |-> "mode", mode |-> mode]
    /\ UNCHANGED <<t_pc, current_mode, routed>>
    /\ ModeFrame

SetMode == \E arg \in ModeInputs : set_mode(arg)

\* GET /get_mode
get_mode ==
    /\ rest_last' = [ep |-> "get_mode", arg |-> "", reply |-> "mode", mode |-> MODE]
    /\ UNCHANGED <<MODE, t_pc, current_mode, routed>>
    /\ ModeFrame

\* accept: current_mode = MODE, read under the lock
TModeAccept(c) ==
    /\ t_pc[c] = "absent"
    /\ t_pc' = [t_pc EXCEPT ![c] = "open"]
    /\ current_mode' = [current_mode EXCEPT ![c] = MODE]
    /\ UNCHANGED <<MODE, rest_last, routed>>
    /\ ModeFrame

GlobalMode(c) == MODE

\* if current_mode == "offline": ... else: ...
RouteOf(c) == current_mode[c]

\* a binary frame or an eos event: it goes to the worker's queue or to the
\* proxy's queue; eos also ends the receive loop
TModeRecv(c) ==
    /\ t_pc[c] = "open"
    /\ routed' = [routed EXCEPT ![c] = @ \cup {RouteOf(c)}]
    /\ \E eos \in BOOLEAN : t_pc' = [t_pc EXCEPT ![c] = IF eos THEN "closed" ELSE "open"]
    /\ UNCHANGED <<MODE, rest_last, current_mode>>
    /\ ModeFrame

InitMode ==
    /\ BridgeIdle
    /\ FanOff
    /\ WorkerOff
    /\ ClsOff
    /\ ToggleOff
    /\ RemoteOff
    /\ OnlineOff
    /\ ModeOff
    /\ CaptureOff

NextMode ==
    \/ SetMode
    \/ get_mode
    \/ \E c \in Conns : TModeAccept(c)
    \/ \E c \in Conns : TModeRecv(c)

SpecMode == InitMode /\ [][NextMode]_vars

\* the mode a /set_mode argument stands for, "" when it is to be refused
Meant(arg) ==
    IF arg \in {"offline", "OFFLINE"} THEN "offline"
    ELSE IF arg \in {"online", "Online"} THEN "online"
    ELSE ""

\* C37: set_mode accepts 'offline' and 'online' in any letter case and sets
\* MODE to it; any other value gets an error reply and leaves MODE as it
\* was; get_mode returns MODE, the last accepted value or the initial
\* 'offline'
C37_SetModeValidates ==
    /\ [][ rest_last' # rest_last =>
             /\ (rest_last'.ep = "set_mode" /\ Meant(rest_last'.arg) # "") =>
                   /\ MODE' = Meant(rest_last'.arg)
                   /\ rest_last'.reply = "mode"
                   /\ rest_last'.mode = MODE'
             /\ (rest_last'.ep = "set_mode" /\ Meant(rest_last'.arg) = "") =>
                   /\ MODE' = MODE
                   /\ rest_last'.reply = "error"
             /\ rest_last'.ep = "get_mode" =>
                   /\ MODE' = MODE
                   /\ rest_last'.mode = MODE ]_vars
    /\ [][ MODE' # MODE => /\ rest_last'.ep = "set_mode"
                           /\ rest_last'.reply = "mode"
                           /\ Meant(rest_last'.arg) = MODE' ]_vars
    /\ [](MODE \in {"offline", "online"})

C37_Witness ==
    /\ MODE = "online"
    /\ rest_last.ep = "set_mode"
    /\ rest_last.arg = "ONLINE "
    /\ rest_last.reply = "error"

\* what the connection was accepted with stays its mode, and every frame
\* it handles takes the branch of that mode
RoutedByOwnMode ==
    \A c \in Conns : routed[c] \subseteq {current_mode[c]}

\* C38: the mode of a /transcribe connection is the value of MODE when it
\* was accepted; a set_mode while it is open leaves its mode and the branch
\* its frames take unchanged, and shows only in connections accepted later
C38_ModeFixedAtAccept ==
    /\ []RoutedByOwnMode
    /\ [][ \A c \in Conns :
             /\ (t_pc[c] = "absent" /\ t_pc'[c] = "open") => current_mode'[c] = MODE
             /\ t_pc[c] # "absent" => current_mode'[c] = current_mode[c] ]_vars

C38_Witness ==
    /\ current_mode["A"] = "offline"
    /\ MODE = "online"
    /\ t_pc["A"] = "open"
    /\ routed["A"] = {"offline"}
    /\ current_mode["B"] = "online"
    /\ routed["B"] = {"online"}

(***************************************************************************)
(* The standalone capture client (client.py) and the classifier it asks   *)
(* about every block before it forwards the block to the transcriber      *)
(***************************************************************************)

CaptureFrame == UNCHANGED <<bridgeVars, fanVars, workerVars, toggleVars, remoteVars, onlineVars, modeVars>>

\* int(SAMPLE_RATE * BLOCK_DURATION) for BLOCK_DURATION 0.2 (as shipped) and 1.0
BlockSettings == {ClientBlockSamples, 5 * ClientBlockSamples}

\* the label field of a reply: the class names of the model, and the word
\* the client compares with
ReplyLabels == {"speech", "Dog"}

\* audio_callback: audio_q.put(indata.copy())
CapCallback ==
    /\ cl_pc \in {"get", "await_reply"}
    /\ cl_captured < MaxClientBlocks
    /\ cl_captured' = cl_captured + 1
    /\ UNCHANGED <<cl_pc, cl_block, cl_deq, cl_labels, cl_fwd, clsVars>>
    /\ CaptureFrame

\* audio_q.get, then ws_classifier.send(block); sending on a connection the
\* classifier has closed raises and ends main
CapGetSend ==
    /\ cl_pc = "get"
    /\ cls_pc # "accept"
    /\ cl_deq < cl_captured
    /\ IF cls_pc = "closed"
       THEN /\ cl_pc' = "failed"
            /\ UNCHANGED cl_deq
       ELSE /\ cl_pc' = "await_reply"
            /\ cl_deq' = cl_deq + 1
    /\ UNCHANGED <<cl_block, cl_captured, cl_labels, cl_fwd, clsVars>>
    /\ CaptureFrame

\* if label == "speech"
ForwardIf(label) == label = "speech"

\* cls_msg = await ws_classifier.recv(): the next message the classifier
\* has sent; the block is forwarded if its label is "speech"
CapRecvReply ==
    /\ cl_pc = "await_reply"
    /\ Len(cl_labels) < cls_sent
    /\ \E label \in ReplyLabels :
         /\ cl_labels' = Append(cl_labels, label)
         /\ cl_fwd' = IF ForwardIf(label) THEN Append(cl_fwd, cl_deq) ELSE cl_fwd
    /\ cl_pc' = "get"
    /\ UNCHANGED <<cl_block, cl_captured, cl_deq, clsVars>>
    /\ CaptureFrame

\* recv on a connection the classifier has closed, nothing left to read
CapRecvClosed ==
    /\ cl_pc = "await_reply"
    /\ cls_pc = "closed"
    /\ Len(cl_labels) = cls_sent
    /\ cl_pc' = "failed"
    /\ UNCHANGED <<cl_block, cl_captured, cl_deq, cl_labels, cl_fwd, clsVars>>
    /\ CaptureFrame

\* SIGINT sets stop_flag, which the loop tests before it takes a block
CapStop ==
    /\ cl_pc = "get"
    /\ cl_pc' = "stopped"
    /\ UNCHANGED <<cl_block, cl_captured, cl_deq, cl_labels, cl_fwd, clsVars>>
    /\ CaptureFrame

\* the classifier receives a block the client has sent
CapClsReceive ==
    /\ cls_chunks < cl_deq
    /\ ClsReceiveOf({cl_block}, MaxClientBlocks + 1)

\* the classifier sees the client's connection go away
CapClsDisconnect ==
    /\ cl_pc \in {"stopped", "failed"}
    /\ cls_chunks = cl_deq
    /\ ClsDisconnect

InitCapture ==
    /\ BridgeIdle
    /\ FanOff
    /\ WorkerOff
    /\ ToggleOff
    /\ RemoteOff
    /\ OnlineOff
    /\ ModeOff
    /\ ClsOff
    /\ cl_pc = "get"
    /\ cl_block \in BlockSettings
    /\ cl_captured = 0
    /\ cl_deq = 0
    /\ cl_labels = <<>>
    /\ cl_fwd = <<>>

NextCapture ==
    \/ CapCallback
    \/ CapGetSend
    \/ CapRecvReply
    \/ CapRecvClosed
    \/ CapStop
    \/ ClsAccept
    \/ CapClsReceive
    \/ ClsWindow
    \/ CapClsDisconnect

SpecCapture == InitCapture /\ [][NextCapture]_vars

\* every step that can be taken eventually is: the event loops of the
\* client and of the classifier run what is ready
SpecCaptureFair == SpecCapture /\ WF_vars(NextCapture)

\* a block goes to the transcriber only on a reply with label 'speech'
ForwardedOnlySpeech ==
    /\ \A i \in DOMAIN cl_fwd :
         cl_fwd[i] \in DOMAIN cl_labels /\ cl_labels[cl_fwd[i]] = "speech"
    /\ Len(cl_labels) <= cl_deq

\* C39: the client makes progress with the classifier: for every block it
\* sends it eventually receives the reply it waits for (and so gets to the
\* next queued block), and it forwards a block to the transcriber only on a
\* reply with label 'speech'
C39_ReplyForEveryBlock ==
    /\ []ForwardedOnlySpeech
    /\ (cl_block = ClientBlockSamples /\ cl_pc = "await_reply") ~> cl_pc = "get"

====
